---- MODULE Spec2Model ----
(***************************************************************************)
(* A model of runtime/mirror/class.cc: the status state machine            *)
(* (Class::SetStatus), the lazy ClassExt install                           *)
(* (Class::EnsureExtDataPresent) and the growth protocol (Class::CopyOf).  *)
(* Every thread is a small program counter machine; one step is one access *)
(* to shared memory together with the thread-local code that follows it.   *)
(* LOG(FATAL) and a failed CHECK abort the process: after an abort no      *)
(* thread takes a step.                                                    *)
(***************************************************************************)
EXTENDS Integers, Sequences, FiniteSets, TLC

\* ------------------------------------------------------------------ bounds
\* Threads are 1..NumThreads. Thread 1 is the linking thread; the others are
\* unrelated threads that install extension data and contend for monitors.
NumThreads == 2
\* Class objects the heap can hold: the original and its grown copies.
MaxClasses == 2
\* ClassExt records the heap can hold; a further allocation fails with OOM.
MaxExt == 2
\* Largest class size (new_length) a caller asks for.
MaxClassSize == 3

\* ------------------------------------------------- Class::Status (class.h)
kStatusRetired == -3
kStatusErrorResolved == -2
kStatusErrorUnresolved == -1
kStatusNotReady == 0
kStatusIdx == 1
kStatusLoaded == 2
kStatusResolving == 3
kStatusResolved == 4
kStatusVerifying == 5
kStatusRetryVerificationAtRuntime == 6
kStatusVerifyingAtRuntime == 7
kStatusVerified == 8
kStatusInitializing == 9
kStatusInitialized == 10

Statuses == kStatusRetired .. kStatusInitialized

\* sizeof(Class), scaled: the size of the fixed header without embedded tables.
SizeofClass == 1
\* kObjectAlignment, scaled.
kObjectAlignment == 2
\* std::numeric_limits<uint32_t>::max(), the unset object_size_alloc_fast_path_,
\* scaled to the largest integer of the model checker.
kFastPathUnset == 2147483647

Threads == 1 .. NumThreads
LinkThread == CHOOSE t \in Threads : \A u \in Threads : t <= u
ClassIds == 1 .. MaxClasses
ExtIds == 1 .. MaxExt
Null == 0

\* Pending exceptions of a thread: none, an ordinary failure, or an OOM error.
NoException == "null"
OOME == "OutOfMemoryError"
Exceptions == {"VerifyError", OOME}

\* ------------------------------------------------------------------ state
VARIABLES
    classLinkerInitialized, \* class_linker != nullptr && class_linker->IsInitialized()
    kIsDebugBuild,        \* the build flavour: DCHECKs and kIsDebugBuild code are live
    allocated,            \* the set of class objects on the heap
    status,               \* Class::status_
    extData,              \* Class::ext_data_ (Null or a ClassExt id)
    lockOwner,            \* the owner of the class's monitor (Null or a thread)
    objectSizeAllocFastPath, \* Class::object_size_alloc_fast_path_
    classSize,            \* Class::class_size_
    hdr,                  \* the other fixed header fields, set by the loader
    embeddedVTable,       \* the embedded vtable tail of a class
    numExt,               \* ClassExt records allocated so far
    verifyError,          \* ClassExt::verify_error_ of each record
    exception,            \* Thread::tlsPtr_.exception of each thread
    pc,                   \* each thread's position
    frame,                \* each thread's locals of the call it is in (or was last in)
    aborted,              \* the process has aborted (LOG(FATAL) / CHECK)
    errorTransitions,     \* history: status writes into an error status, per class,
                          \* counted up to two
    everResolved,         \* history: the status of the class has been at or above
                          \* Resolved
    java_lang_Class_,     \* Class::java_lang_Class_, the root (Null or a class)
    rootCalls             \* history: the SetClassClass and ResetClass calls that
                          \* have completed, in order

classVars == <<allocated, status, extData, lockOwner, objectSizeAllocFastPath,
               classSize, hdr, embeddedVTable, errorTransitions, everResolved>>
rootVars == <<java_lang_Class_, rootCalls>>
vars == <<classLinkerInitialized, kIsDebugBuild, allocated, status, extData, lockOwner,
          objectSizeAllocFastPath, classSize, hdr, embeddedVTable, numExt,
          verifyError, exception, pc, frame, aborted, errorTransitions, everResolved,
          java_lang_Class_, rootCalls>>

\* ------------------------------------------------------- header helpers
\* The descriptors of the dex file's type ids (DexFile::GetTypeDescriptor).
\* A descriptor is the array of its characters: La/B;, La/C;, Lb/C;, LB;, LC;,
\* La/b/C; and Lab/C;.
DexTypeDescriptor ==
    << <<"L", "a", "/", "B", ";">>,
       <<"L", "a", "/", "C", ";">>,
       <<"L", "b", "/", "C", ";">>,
       <<"L", "B", ";">>,
       <<"L", "C", ";">>,
       <<"L", "a", "/", "b", "/", "C", ";">>,
       <<"L", "a", "b", "/", "C", ";">> >>

\* The headers the loader builds: an ordinary instantiable class, an abstract
\* class, a finalizable class, and a variable-size class.
OrdinaryKind ==
    [shouldHaveEmbeddedVTable |-> TRUE, isVariableSize |-> FALSE, isFinalizable |-> FALSE]

ClassKinds ==
    { OrdinaryKind,
      [shouldHaveEmbeddedVTable |-> FALSE, isVariableSize |-> FALSE, isFinalizable |-> FALSE],
      [shouldHaveEmbeddedVTable |-> TRUE,  isVariableSize |-> FALSE, isFinalizable |-> TRUE],
      [shouldHaveEmbeddedVTable |-> TRUE,  isVariableSize |-> TRUE,  isFinalizable |-> FALSE] }

\* The working (unembedded) vtables on the heap, by pointer: PointerArray objects.
PointerArrays == << <<1, 2>> >>

\* hdr[c]: the loader-set header of class c; objectSize and dexClassDefIdx are
\* fixed per behaviour, vtable is the working (unembedded) table, Null once
\* PopulateEmbeddedVTable has dropped it.
LoaderHeader(kind) ==
    [shouldHaveEmbeddedVTable |-> kind.shouldHaveEmbeddedVTable,
     isVariableSize |-> kind.isVariableSize,
     isFinalizable |-> kind.isFinalizable,
     objectSize |-> 3,
     dexClassDefIdx |-> 2,
     isObjectClass |-> FALSE,
     vtable |-> 1,
     imt |-> Null]

NoHeader ==
    [shouldHaveEmbeddedVTable |-> FALSE, isVariableSize |-> FALSE,
     isFinalizable |-> FALSE, objectSize |-> 0, dexClassDefIdx |-> 1,
     isObjectClass |-> FALSE, vtable |-> Null, imt |-> Null]

\* The array of the first n values of f, f[1] to f[n].
RECURSIVE ArrayOf(_, _)
ArrayOf(f, n) == IF n = 0 THEN <<>> ELSE Append(ArrayOf(f, n - 1), f[n])

\* Class::GetDescriptor for a class loaded from a dex file.
GetDescriptor(c) == DexTypeDescriptor[hdr[c].dexClassDefIdx]

\* RoundUp(x, n) of base/bit_utils.h.
RoundUp(x, n) == ((x + n - 1) \div n) * n

\* Class::IsErroneous(Status), class.h.
IsErroneous(s) == s = kStatusErrorUnresolved \/ s = kStatusErrorResolved

\* Class::IsTemp(), class.h: a placeholder that should retire and be replaced
\* by a class of the right size. It reads the status field.
IsTemp(c) ==
    /\ status[c] < kStatusResolving
    /\ status[c] # kStatusErrorResolved
    /\ hdr[c].shouldHaveEmbeddedVTable

\* ------------------------------------------------------------- frames
NoFrame ==
    [op |-> "none", result |-> "none",
     klass |-> Null, new_status |-> kStatusNotReady, old_status |-> kStatusNotReady,
     notified |-> FALSE, is_temp |-> FALSE, entryException |-> NoException, ssFrom |-> "top",
     ext_this |-> Null, throwable |-> NoException, new_ext |-> Null, ret |-> Null,
     extFrom |-> "top",
     orig |-> Null, new_length |-> 0, imt |-> Null, new_class |-> Null]

\* A class object is visible to other threads once the call that allocates it
\* has returned it.
UnderConstruction(c) ==
    \E t \in Threads : pc[t] \notin {"idle", "done", "aborted"} /\ frame[t].op = "CopyOf"
                        /\ frame[t].new_class = c
Visible == {c \in allocated : ~UnderConstruction(c)}

\* ------------------------------------------------------------- Init
Init ==
    /\ classLinkerInitialized \in BOOLEAN
    /\ kIsDebugBuild \in BOOLEAN
    /\ allocated = {1}
    /\ status = [c \in ClassIds |-> kStatusNotReady]
    /\ extData = [c \in ClassIds |-> Null]
    /\ lockOwner = [c \in ClassIds |-> Null]
    /\ objectSizeAllocFastPath = [c \in ClassIds |-> kFastPathUnset]
    /\ classSize = [c \in ClassIds |-> IF c = 1 THEN SizeofClass + 1 ELSE 0]
    /\ \E kind \in ClassKinds :
         hdr = [c \in ClassIds |-> IF c = 1 THEN LoaderHeader(kind) ELSE NoHeader]
    /\ embeddedVTable = [c \in ClassIds |-> <<>>]
    /\ numExt = 0
    /\ verifyError = [e \in ExtIds |-> NoException]
    /\ exception = [t \in Threads |-> NoException]
    /\ pc = [t \in Threads |-> "idle"]
    /\ frame = [t \in Threads |-> NoFrame]
    /\ aborted = FALSE
    /\ errorTransitions = [c \in ClassIds |-> 0]
    /\ everResolved = [c \in ClassIds |-> FALSE]
    /\ java_lang_Class_ = Null
    /\ rootCalls = <<>>

\* LOG(FATAL) or a failed CHECK in thread t: the process aborts.
Abort(t, f) ==
    /\ aborted' = TRUE
    /\ pc' = [pc EXCEPT ![t] = "aborted"]
    /\ frame' = [frame EXCEPT ![t] = [f EXCEPT !.result = "aborted"]]

\* ----------------------------------------------- environment of the core
\* The calling thread gets, or clears, a pending failure between calls.
SetException(t, e) ==
    /\ ~aborted /\ pc[t] = "idle"
    /\ exception[t] # e
    /\ exception' = [exception EXCEPT ![t] = e]
    /\ UNCHANGED <<rootVars, classLinkerInitialized, kIsDebugBuild, classVars, numExt,
                   verifyError, pc, frame, aborted>>

\* ObjectLock: thread t enters the monitor of class c.
MonitorEnter(t, c) ==
    /\ ~aborted /\ pc[t] = "idle"
    /\ c \in Visible
    /\ lockOwner[c] = Null
    /\ lockOwner' = [lockOwner EXCEPT ![c] = t]
    /\ UNCHANGED <<rootVars, classLinkerInitialized, kIsDebugBuild, allocated, status, extData,
                   objectSizeAllocFastPath, classSize, hdr, embeddedVTable, numExt,
                   verifyError, exception, pc, frame, aborted, errorTransitions, everResolved>>

\* ObjectLock: thread t leaves the monitor of class c.
MonitorExit(t, c) ==
    /\ ~aborted /\ pc[t] = "idle"
    /\ lockOwner[c] = t
    /\ lockOwner' = [lockOwner EXCEPT ![c] = Null]
    /\ UNCHANGED <<rootVars, classLinkerInitialized, kIsDebugBuild, allocated, status, extData,
                   objectSizeAllocFastPath, classSize, hdr, embeddedVTable, numExt,
                   verifyError, exception, pc, frame, aborted, errorTransitions, everResolved>>

\* ------------------------------------------------ Class::SetStatus
\* Mutant of UnexpectedChangeBack: < for <=, so a call with the status the
\* class already has is let through.
UnexpectedChangeBackStrict(new_status, old_status) ==
    /\ new_status < old_status
    /\ new_status # kStatusErrorUnresolved
    /\ new_status # kStatusErrorResolved
    /\ new_status # kStatusRetired

\* Lines 118-121: the change is a change back that is not sanctioned.
UnexpectedChangeBack(new_status, old_status) ==
    /\ new_status <= old_status
    /\ new_status # kStatusErrorUnresolved
    /\ new_status # kStatusErrorResolved
    /\ new_status # kStatusRetired

\* Mutant of NeedsLock: the old status is not looked at.
NeedsLockNewOnly(new_status, old_status) == new_status >= kStatusResolved

\* Mutant of NeedsLock: the new status is not looked at.
NeedsLockOldOnly(new_status, old_status) == old_status >= kStatusResolved

\* Line 125: the transition needs the class's monitor.
NeedsLock(new_status, old_status) ==
    new_status >= kStatusResolved \/ old_status >= kStatusResolved

\* Where SetStatus goes after lines 114-131.
AfterEntry(new_status) == IF IsErroneous(new_status) THEN "ss_err" ELSE "ss_write"

\* Mutant of SetStatusEntry: the checks of lines 117-131 do not depend on the
\* class linker being initialized.
SetStatusEntryChecked(t, f, old_status, owner) ==
    LET g == [f EXCEPT !.old_status = old_status]
    IN  IF \/ UnexpectedChangeBack(f.new_status, old_status)
           \/ (NeedsLock(f.new_status, old_status) /\ owner # t)
        THEN Abort(t, g)
        ELSE /\ pc' = [pc EXCEPT ![t] = AfterEntry(f.new_status)]
             /\ frame' = [frame EXCEPT ![t] = g]
             /\ aborted' = aborted

\* Lines 114-131 for thread t, with f the frame of the call, old_status the
\* status read at line 114 and owner the lock owner read at line 127: reject a
\* change back, check the lock owner.
SetStatusEntry(t, f, old_status, owner) ==
    LET g == [f EXCEPT !.old_status = old_status]
    IN  IF classLinkerInitialized
           /\ (\/ UnexpectedChangeBack(f.new_status, old_status)
               \/ (NeedsLock(f.new_status, old_status) /\ owner # t))
        THEN Abort(t, g)
        ELSE /\ pc' = [pc EXCEPT ![t] = AfterEntry(f.new_status)]
             /\ frame' = [frame EXCEPT ![t] = g]
             /\ aborted' = aborted

\* A call SetStatus(h_this, new_status, self) by an idle thread, lines 113-131.
SetStatus(t, h_this, new_status) ==
    /\ ~aborted /\ pc[t] = "idle"
    /\ h_this \in Visible
    /\ SetStatusEntry(t, [NoFrame EXCEPT !.op = "SetStatus", !.result = "running",
                                         !.klass = h_this, !.new_status = new_status,
                                         !.entryException = exception[t]],
                      status[h_this], lockOwner[h_this])
    /\ UNCHANGED <<rootVars, classLinkerInitialized, kIsDebugBuild, classVars, numExt,
                   verifyError, exception>>

\* Mutant of ErroneousChecksFail: the CHECK of line 133 is missing.
ErroneousChecksFailNoFirst(cur_status, new_status, old_status) ==
    (new_status = kStatusErrorResolved) # (old_status >= kStatusResolved)

\* Mutant of ErroneousChecksFail: the CHECK of line 133 looks at the old
\* status only where the new status equals it.
ErroneousChecksFailSameOnly(cur_status, new_status, old_status) ==
    \/ cur_status = new_status
    \/ (new_status = kStatusErrorResolved) # (old_status >= kStatusResolved)

\* Mutant of ErroneousChecksFail: the CHECK_EQ of line 137 is missing.
ErroneousChecksFailNoPairing(cur_status, new_status, old_status) ==
    IsErroneous(cur_status)

\* Lines 133-137: the CHECKs of a transition into an error status fail: the
\* class, with status cur_status now, is erroneous already, or ErrorResolved
\* is not paired with an old status at or above Resolved.
ErroneousChecksFail(cur_status, new_status, old_status) ==
    \/ IsErroneous(cur_status)
    \/ (new_status = kStatusErrorResolved) # (old_status >= kStatusResolved)

\* Lines 132-145: the CHECKs of a transition into an error status; then
\* EnsureExtDataPresent is called.
SetStatusErr(t) ==
    /\ ~aborted /\ pc[t] = "ss_err"
    /\ IF ErroneousChecksFail(status[frame[t].klass], frame[t].new_status,
                              frame[t].old_status)
       THEN Abort(t, frame[t])
       ELSE /\ pc' = [pc EXCEPT ![t] = "ext_read"]
            /\ frame' = [frame EXCEPT ![t].ext_this = frame[t].klass,
                                      ![t].extFrom = "ss"]
            /\ aborted' = aborted
    /\ UNCHANGED <<rootVars, classLinkerInitialized, kIsDebugBuild, classVars, numExt,
                   verifyError, exception>>

\* Mutant of ExceptionToRecord: the exception saved by EnsureExtDataPresent
\* is recorded instead of the pending one.
ExceptionToRecordSaved(t, f) == f.throwable

\* Line 148: the exception SetVerifyError is given, self->GetException().
ExceptionToRecord(t, f) == exception[t]

\* self->AssertPendingException(), lines 147 and 152: the assertion holds.
AssertPendingException(t) == exception[t] # NoException

\* self->AssertPendingOOMException(), line 150: the assertion holds.
AssertPendingOOMException(t) == exception[t] = OOME

\* Mutant of SetStatusCapture: the assertions of lines 147 and 152 are
\* missing.
SetStatusCaptureUnasserted(t) ==
    /\ ~aborted /\ pc[t] = "ss_capture"
    /\ verifyError' = IF frame[t].ret # Null
                      THEN [verifyError EXCEPT
                              ![frame[t].ret] = ExceptionToRecord(t, frame[t])]
                      ELSE verifyError
    /\ pc' = [pc EXCEPT ![t] = "ss_write"]
    /\ UNCHANGED <<rootVars, classLinkerInitialized, kIsDebugBuild, classVars, numExt, exception,
                   frame, aborted>>

\* Mutant of SetStatusCapture: line 148, SetVerifyError, is missing.
SetStatusCaptureUnrecorded(t) ==
    /\ ~aborted /\ pc[t] = "ss_capture"
    /\ IF (frame[t].ret # Null /\ ~AssertPendingException(t))
          \/ (frame[t].ret = Null
              /\ ~(AssertPendingOOMException(t) /\ AssertPendingException(t)))
       THEN Abort(t, frame[t])
       ELSE /\ pc' = [pc EXCEPT ![t] = "ss_write"]
            /\ UNCHANGED <<frame, aborted>>
    /\ UNCHANGED <<rootVars, classLinkerInitialized, kIsDebugBuild, classVars, numExt, exception,
                   verifyError>>

\* Lines 146-152: record the pending exception in the extension data.
SetStatusCapture(t) ==
    /\ ~aborted /\ pc[t] = "ss_capture"
    /\ IF frame[t].ret # Null
       THEN IF ~AssertPendingException(t)
            THEN Abort(t, frame[t]) /\ UNCHANGED verifyError
            ELSE /\ verifyError' = [verifyError EXCEPT
                                      ![frame[t].ret] = ExceptionToRecord(t, frame[t])]
                 /\ pc' = [pc EXCEPT ![t] = "ss_write"]
                 /\ UNCHANGED <<frame, aborted>>
       ELSE IF ~(AssertPendingOOMException(t) /\ AssertPendingException(t))
            THEN Abort(t, frame[t]) /\ UNCHANGED verifyError
            ELSE /\ pc' = [pc EXCEPT ![t] = "ss_write"]
                 /\ UNCHANGED <<frame, aborted, verifyError>>
    /\ UNCHANGED <<rootVars, classLinkerInitialized, kIsDebugBuild, classVars, numExt, exception>>

\* Lines 155-160: the volatile write of the status.
StatusWrite(c, new_status) == [status EXCEPT ![c] = new_status]

SetStatusWrite(t) ==
    /\ ~aborted /\ pc[t] = "ss_write"
    /\ status' = StatusWrite(frame[t].klass, frame[t].new_status)
    /\ errorTransitions' =
         IF IsErroneous(frame[t].new_status) /\ errorTransitions[frame[t].klass] < 2
         THEN [errorTransitions EXCEPT ![frame[t].klass] = @ + 1]
         ELSE errorTransitions
    /\ everResolved' =
         IF frame[t].new_status >= kStatusResolved
         THEN [everResolved EXCEPT ![frame[t].klass] = TRUE]
         ELSE everResolved
    /\ pc' = [pc EXCEPT ![t] =
                IF frame[t].new_status = kStatusInitialized
                   /\ ~hdr[frame[t].klass].isVariableSize
                THEN "ss_fast" ELSE "ss_notify"]
    /\ UNCHANGED <<rootVars, classLinkerInitialized, kIsDebugBuild, allocated, extData, lockOwner,
                   objectSizeAllocFastPath, classSize, hdr, embeddedVTable, numExt,
                   verifyError, exception, frame, aborted>>

\* Mutant of FastPathValue: the object size is cached as it is.
FastPathValueUnrounded(c) == hdr[c].objectSize

\* Line 169: the size the allocation fast path gets.
FastPathValue(c) == RoundUp(hdr[c].objectSize, kObjectAlignment)

\* Lines 165-171: cache the allocation fast-path size.
SetStatusFastPath(t) ==
    /\ ~aborted /\ pc[t] = "ss_fast"
    /\ LET c == frame[t].klass
       IN  IF kIsDebugBuild /\ objectSizeAllocFastPath[c] # kFastPathUnset
           THEN Abort(t, frame[t]) /\ UNCHANGED objectSizeAllocFastPath
           ELSE /\ objectSizeAllocFastPath' =
                     IF ~hdr[c].isFinalizable
                     THEN [objectSizeAllocFastPath EXCEPT
                             ![c] = FastPathValue(c)]
                     ELSE objectSizeAllocFastPath
                /\ pc' = [pc EXCEPT ![t] = "ss_notify"]
                /\ UNCHANGED <<frame, aborted>>
    /\ UNCHANGED <<rootVars, classLinkerInitialized, kIsDebugBuild, allocated, status, extData,
                   lockOwner, classSize, hdr, embeddedVTable, numExt, verifyError,
                   exception, errorTransitions,
                   everResolved>>

\* Mutant of TempNotifies: a temporary class notifies on retirement only.
TempNotifiesRetiredOnly(new_status) == new_status = kStatusRetired

\* Line 184: a temporary class notifies its waiters.
TempNotifies(new_status) ==
    new_status = kStatusRetired \/ new_status = kStatusErrorUnresolved

\* Mutant of RegularNotifies: the old status is not looked at.
RegularNotifiesNewOnly(old_status, new_status) == new_status >= kStatusResolved

\* Mutant of RegularNotifies: only a transition across the Resolved boundary
\* notifies.
RegularNotifiesCrossing(old_status, new_status) ==
    (old_status >= kStatusResolved) # (new_status >= kStatusResolved)

\* Line 189: a regular class notifies its waiters.
RegularNotifies(old_status, new_status) ==
    old_status >= kStatusResolved \/ new_status >= kStatusResolved

\* Mutant of RetiresRegular: the CHECK_NE of line 188 is missing.
RetiresRegularNever(new_status) == FALSE

\* Line 183, CHECK_LT(new_status, kStatusResolved) on a temporary class, fails.
ResolvesTemp(new_status) == ~(new_status < kStatusResolved)

\* Line 188, CHECK_NE(new_status, kStatusRetired) on a regular class, fails.
RetiresRegular(new_status) == new_status = kStatusRetired

\* Where SetStatus returns to.
AfterSetStatus(f) == IF f.ssFrom = "copy" THEN "copy_finish" ELSE "done"
ReturnFromSetStatus(f) ==
    IF f.ssFrom = "copy" THEN f ELSE [f EXCEPT !.result = "returned"]

\* Lines 173-193: the CHECKs on temporary and regular classes and NotifyAll.
\* notified records that this call issued h_this->NotifyAll(self).
SetStatusNotify(t) ==
    /\ ~aborted /\ pc[t] = "ss_notify"
    /\ LET f == frame[t]
           c == f.klass
       IN  IF ~classLinkerInitialized
           THEN /\ pc' = [pc EXCEPT ![t] = AfterSetStatus(f)]
                /\ frame' = [frame EXCEPT ![t] = ReturnFromSetStatus(f)]
                /\ aborted' = aborted
           ELSE IF IsTemp(c)
           THEN IF ResolvesTemp(f.new_status)
                THEN Abort(t, [f EXCEPT !.is_temp = TRUE])
                ELSE /\ pc' = [pc EXCEPT ![t] = AfterSetStatus(f)]
                     /\ frame' = [frame EXCEPT ![t] =
                           ReturnFromSetStatus(
                             [f EXCEPT !.is_temp = TRUE,
                                       !.notified = TempNotifies(f.new_status)])]
                     /\ aborted' = aborted
           ELSE IF RetiresRegular(f.new_status)
                THEN Abort(t, f)
                ELSE /\ pc' = [pc EXCEPT ![t] = AfterSetStatus(f)]
                     /\ frame' = [frame EXCEPT ![t] =
                           ReturnFromSetStatus(
                             [f EXCEPT !.notified =
                                RegularNotifies(f.old_status, f.new_status)])]
                     /\ aborted' = aborted
    /\ UNCHANGED <<rootVars, classLinkerInitialized, kIsDebugBuild, classVars, numExt,
                   verifyError, exception>>

\* ------------------------------------- Class::EnsureExtDataPresent
\* EnsureExtDataPresent returns ret to its caller: to SetStatus, or to the
\* thread that called it.
ExtReturn(t, f, ret) ==
    IF f.extFrom = "ss"
    THEN /\ pc' = [pc EXCEPT ![t] = "ss_capture"]
         /\ frame' = [frame EXCEPT ![t] = [f EXCEPT !.ret = ret]]
    ELSE /\ pc' = [pc EXCEPT ![t] = "done"]
         /\ frame' = [frame EXCEPT ![t] = [f EXCEPT !.ret = ret, !.result = "returned"]]

\* A call EnsureExtDataPresent(self) on class c by an idle thread.
EnsureExtDataPresent(t, c) ==
    /\ ~aborted /\ pc[t] = "idle"
    /\ c \in Visible
    /\ pc' = [pc EXCEPT ![t] = "ext_read"]
    /\ frame' = [frame EXCEPT ![t] =
                   [NoFrame EXCEPT !.op = "EnsureExtDataPresent", !.result = "running",
                                   !.ext_this = c, !.entryException = exception[t]]]
    /\ UNCHANGED <<rootVars, classLinkerInitialized, kIsDebugBuild, classVars, numExt,
                   verifyError, exception, aborted>>

\* Lines 72-75: return the record that is there.
ExtRead(t) ==
    /\ ~aborted /\ pc[t] = "ext_read"
    /\ IF extData[frame[t].ext_this] # Null
       THEN ExtReturn(t, frame[t], extData[frame[t].ext_this])
       ELSE pc' = [pc EXCEPT ![t] = "ext_alloc"] /\ UNCHANGED frame
    /\ UNCHANGED <<rootVars, classLinkerInitialized, kIsDebugBuild, classVars, numExt,
                   verifyError, exception, aborted>>

\* Lines 80-83: remember and clear the pending exception, allocate the ClassExt.
ExtAllocOk(t) ==
    /\ ~aborted /\ pc[t] = "ext_alloc"
    /\ numExt < MaxExt
    /\ numExt' = numExt + 1
    /\ verifyError' = [verifyError EXCEPT ![numExt + 1] = NoException]
    /\ exception' = [exception EXCEPT ![t] = NoException]
    /\ frame' = [frame EXCEPT ![t].throwable = exception[t], ![t].new_ext = numExt + 1]
    /\ pc' = [pc EXCEPT ![t] = "ext_cas"]
    /\ UNCHANGED <<rootVars, classLinkerInitialized, kIsDebugBuild, classVars, aborted>>

\* Mutant of ExtAllocOom: the exception remembered at line 80 is pending
\* again when nullptr is returned.
ExtAllocOomRestores(t) ==
    /\ ~aborted /\ pc[t] = "ext_alloc"
    /\ exception' = exception
    /\ ExtReturn(t, [frame[t] EXCEPT !.throwable = exception[t]], Null)
    /\ UNCHANGED <<rootVars, classLinkerInitialized, kIsDebugBuild, classVars, numExt,
                   verifyError, aborted>>

\* Mutant of ExtAllocOom: the compare-and-swap is attempted with the null
\* record.
ExtAllocOomThenCas(t) ==
    /\ ~aborted /\ pc[t] = "ext_alloc"
    /\ exception' = [exception EXCEPT ![t] = NoException]
    /\ frame' = [frame EXCEPT ![t].throwable = exception[t], ![t].new_ext = Null]
    /\ pc' = [pc EXCEPT ![t] = "ext_cas"]
    /\ UNCHANGED <<rootVars, classLinkerInitialized, kIsDebugBuild, classVars, numExt,
                   verifyError, aborted>>

\* Lines 80-88: the allocation fails; the OOM error is pending and nullptr
\* is returned.
ExtAllocOom(t) ==
    /\ ~aborted /\ pc[t] = "ext_alloc"
    /\ exception' = [exception EXCEPT ![t] = OOME]
    /\ ExtReturn(t, [frame[t] EXCEPT !.throwable = exception[t]], Null)
    /\ UNCHANGED <<rootVars, classLinkerInitialized, kIsDebugBuild, classVars, numExt,
                   verifyError, aborted>>

\* Mutant of CasSucceeds: a plain store in place of the compare-and-swap.
CasAlwaysStores(current) == TRUE

\* CasFieldStrongSequentiallyConsistentObject(ext_offset, nullptr, new_ext):
\* the store happens iff the slot holds the expected nullptr.
CasSucceeds(current) == current = Null

\* Mutant of RestoreException: the exception cleared at line 81 stays
\* cleared.
RestoreExceptionNever(t, f) == exception

\* Lines 105-109: restore the exception if there was one.
RestoreException(t, f) ==
    IF f.throwable # NoException
    THEN [exception EXCEPT ![t] = f.throwable]
    ELSE exception

\* Lines 90-101: the compare-and-swap of ext_data_; the winner goes on to
\* lines 102-109, the loser to the re-read of line 102.
ExtCas(t) ==
    /\ ~aborted /\ pc[t] = "ext_cas"
    /\ LET f == frame[t]
           c == f.ext_this
       IN  IF CasSucceeds(extData[c])
           THEN /\ extData' = [extData EXCEPT ![c] = f.new_ext]
                /\ IF kIsDebugBuild
                   THEN pc' = [pc EXCEPT ![t] = "ext_dcheck"]
                        /\ UNCHANGED <<frame, exception>>
                   ELSE ExtReturn(t, f, f.new_ext)
                        /\ exception' = RestoreException(t, f)
           ELSE /\ pc' = [pc EXCEPT ![t] = "ext_reread"]
                /\ UNCHANGED <<extData, frame, exception>>
    /\ UNCHANGED <<rootVars, classLinkerInitialized, kIsDebugBuild, allocated, status, lockOwner,
                   objectSizeAllocFastPath, classSize, hdr, embeddedVTable, numExt,
                   verifyError, aborted, errorTransitions,
                   everResolved>>

\* Line 103, debug builds: DCHECK(!set || h_this->GetExtData() == new_ext.Get()).
ExtDcheck(t) ==
    /\ ~aborted /\ pc[t] = "ext_dcheck"
    /\ IF extData[frame[t].ext_this] # frame[t].new_ext
       THEN Abort(t, frame[t]) /\ UNCHANGED exception
       ELSE /\ ExtReturn(t, frame[t], frame[t].new_ext)
            /\ exception' = RestoreException(t, frame[t])
            /\ aborted' = aborted
    /\ UNCHANGED <<rootVars, classLinkerInitialized, kIsDebugBuild, classVars, numExt, verifyError>>

\* Mutant of ExtReread: the loser of the CAS returns the record it allocated.
ExtRereadOwn(t) ==
    /\ ~aborted /\ pc[t] = "ext_reread"
    /\ ExtReturn(t, frame[t], frame[t].new_ext)
    /\ exception' = RestoreException(t, frame[t])
    /\ UNCHANGED <<rootVars, classLinkerInitialized, kIsDebugBuild, classVars, numExt, verifyError,
                   aborted>>

\* Lines 102-109 after a lost CAS: return what the winner installed.
ExtReread(t) ==
    /\ ~aborted /\ pc[t] = "ext_reread"
    /\ IF extData[frame[t].ext_this] = Null
       THEN Abort(t, frame[t]) /\ UNCHANGED exception
       ELSE /\ ExtReturn(t, frame[t], extData[frame[t].ext_this])
            /\ exception' = RestoreException(t, frame[t])
            /\ aborted' = aborted
    /\ UNCHANGED <<rootVars, classLinkerInitialized, kIsDebugBuild, classVars, numExt, verifyError>>

\* ------------------------------------------------------ Class::CopyOf
\* The ImTables a caller passes.
ImTables == {1, 2}

\* A call CopyOf(self, new_length, imt, pointer_size) on class this by an idle
\* thread, line 1096: DCHECK_GE(new_length, sizeof(Class)).
CopyOf(t, this, new_length, imt) ==
    /\ ~aborted /\ pc[t] = "idle"
    /\ this \in Visible
    /\ LET f == [NoFrame EXCEPT !.op = "CopyOf", !.result = "running", !.orig = this,
                                !.new_length = new_length, !.imt = imt,
                                !.entryException = exception[t]]
       IN  IF kIsDebugBuild /\ new_length < SizeofClass
           THEN Abort(t, f)
           ELSE /\ pc' = [pc EXCEPT ![t] = "copy_alloc"]
                /\ frame' = [frame EXCEPT ![t] = f]
                /\ aborted' = aborted
    /\ UNCHANGED <<rootVars, classLinkerInitialized, kIsDebugBuild, classVars, numExt,
                   verifyError, exception>>

\* Mutant of CopyAllocOom: the failed allocation leaves no failure pending.
CopyAllocOomSilent(t) ==
    /\ ~aborted /\ pc[t] = "copy_alloc"
    /\ pc' = [pc EXCEPT ![t] = "done"]
    /\ frame' = [frame EXCEPT ![t].result = "returned", ![t].new_class = Null]
    /\ UNCHANGED <<rootVars, classLinkerInitialized, kIsDebugBuild, classVars, numExt,
                   verifyError, exception, aborted>>

\* Lines 1104-1110: the heap cannot allocate the new class.
CopyAllocOom(t) ==
    /\ ~aborted /\ pc[t] = "copy_alloc"
    /\ exception' = [exception EXCEPT ![t] = OOME]
    /\ pc' = [pc EXCEPT ![t] = "done"]
    /\ frame' = [frame EXCEPT ![t].result = "returned", ![t].new_class = Null]
    /\ UNCHANGED <<rootVars, classLinkerInitialized, kIsDebugBuild, classVars, numExt,
                   verifyError, aborted>>

\* Mutant of CopyObject: source and destination swapped.
CopyObjectSwapped(fld, dest, src) == [fld EXCEPT ![src] = fld[dest]]

\* Object::CopyObject(dest, src, sizeof(Class)): the fixed header of src, value
\* of field fld, lands in dest; the monitor word and the tail are not copied.
CopyObject(fld, dest, src) == [fld EXCEPT ![dest] = fld[src]]

\* Mutant of CopyAllocOk: the status is not among the header fields copied;
\* SetStatus finds the new class in NotReady.
CopyAllocOkFreshStatus(t) ==
    /\ ~aborted /\ pc[t] = "copy_alloc"
    /\ \E n \in ClassIds :
         /\ n \notin allocated
         /\ \A m \in ClassIds \ allocated : n <= m
         /\ LET o == frame[t].orig
            IN  /\ allocated' = allocated \cup {n}
                /\ status' = [status EXCEPT ![n] = kStatusNotReady]
                /\ everResolved' = [everResolved EXCEPT ![n] = FALSE]
                /\ extData' = CopyObject(extData, n, o)
                /\ objectSizeAllocFastPath' = CopyObject(objectSizeAllocFastPath, n, o)
                /\ classSize' = CopyObject(classSize, n, o)
                /\ hdr' = CopyObject(hdr, n, o)
                /\ SetStatusEntry(t, [frame[t] EXCEPT !.new_class = n, !.klass = n,
                                                      !.new_status = kStatusResolving,
                                                      !.ssFrom = "copy"],
                                  kStatusNotReady, Null)
    /\ UNCHANGED <<rootVars, classLinkerInitialized, kIsDebugBuild, lockOwner, embeddedVTable,
                   numExt, verifyError, exception, errorTransitions>>

\* Lines 1104-1106 and 1070-1075: the heap allocates the new class and runs
\* the pre-fence visitor on it: CopyObject, then SetStatus(new, Resolving)
\* up to its line 131. The new object is private to the thread.
CopyAllocOk(t) ==
    /\ ~aborted /\ pc[t] = "copy_alloc"
    /\ \E n \in ClassIds :
         /\ n \notin allocated
         /\ \A m \in ClassIds \ allocated : n <= m
         /\ LET o == frame[t].orig
            IN  /\ allocated' = allocated \cup {n}
                /\ status' = CopyObject(status, n, o)
                /\ everResolved' = CopyObject(everResolved, n, o)
                /\ extData' = CopyObject(extData, n, o)
                /\ objectSizeAllocFastPath' = CopyObject(objectSizeAllocFastPath, n, o)
                /\ classSize' = CopyObject(classSize, n, o)
                /\ hdr' = CopyObject(hdr, n, o)
                /\ SetStatusEntry(t, [frame[t] EXCEPT !.new_class = n, !.klass = n,
                                                      !.new_status = kStatusResolving,
                                                      !.ssFrom = "copy"],
                                  status[o], Null)
    /\ UNCHANGED <<rootVars, classLinkerInitialized, kIsDebugBuild, lockOwner, embeddedVTable,
                   numExt, verifyError, exception, errorTransitions>>

\* Mutant of SetClassSizeFails: the check is missing.
SetClassSizeNeverFails(new_class_size, old_class_size) == FALSE

\* Class::SetClassSize, lines 200-208: the debug build rejects a smaller size.
SetClassSizeFails(new_class_size, old_class_size) ==
    kIsDebugBuild /\ new_class_size < old_class_size

\* Mutant of PopulateEmbeddedVTable: the last entry is not copied.
PopulateEmbeddedVTableShort(table) ==
    ArrayOf(PointerArrays[table], Len(PointerArrays[table]) - 1)

\* Class::PopulateEmbeddedVTable, lines 1017-1021: the embedded table gets the
\* length of the working table and each of its entries.
PopulateEmbeddedVTable(table) ==
    ArrayOf(PointerArrays[table], Len(PointerArrays[table]))

\* Lines 1076-1082 and 1111: PopulateEmbeddedVTable (lines 1014-1027), SetImt,
\* SetClassSize, the read barriers on the native roots; CopyOf returns the class.
CopyFinish(t) ==
    /\ ~aborted /\ pc[t] = "copy_finish"
    /\ LET f == frame[t]
           n == f.new_class
       IN  IF \/ hdr[n].vtable = Null
              \/ SetClassSizeFails(f.new_length, classSize[n])
           THEN Abort(t, f) /\ UNCHANGED <<embeddedVTable, hdr, classSize>>
           ELSE /\ embeddedVTable' =
                     [embeddedVTable EXCEPT ![n] = PopulateEmbeddedVTable(hdr[n].vtable)]
                /\ hdr' = [hdr EXCEPT ![n].vtable =
                                        IF hdr[n].isObjectClass THEN @ ELSE Null,
                                      ![n].imt = f.imt]
                /\ classSize' = [classSize EXCEPT ![n] = f.new_length]
                /\ pc' = [pc EXCEPT ![t] = "done"]
                /\ frame' = [frame EXCEPT ![t].result = "returned"]
                /\ aborted' = aborted
    /\ UNCHANGED <<rootVars, classLinkerInitialized, kIsDebugBuild, allocated, status, extData,
                   lockOwner, objectSizeAllocFastPath, numExt, verifyError, exception,
                   errorTransitions,
                   everResolved>>

\* The call of thread t has returned: the caller goes on, the locals are gone.
Return(t) ==
    /\ ~aborted /\ pc[t] = "done"
    /\ pc' = [pc EXCEPT ![t] = "idle"]
    /\ frame' = [frame EXCEPT ![t] = NoFrame]
    /\ UNCHANGED <<rootVars, classLinkerInitialized, kIsDebugBuild, classVars, numExt,
                   verifyError, exception, aborted>>

\* ------------------------------------------------------------- Next
\* The status machine: the linking thread drives one class through SetStatus,
\* with failures pending or not, while every thread contends for its monitor.
Next ==
    \/ \E c \in ClassIds, s \in Statuses : SetStatus(LinkThread, c, s)
    \/ \E e \in Exceptions \cup {NoException} : SetException(LinkThread, e)
    \/ \E t \in Threads, c \in ClassIds : MonitorEnter(t, c)
    \/ \E t \in Threads, c \in ClassIds : MonitorExit(t, c)
    \/ SetStatusErr(LinkThread)
    \/ SetStatusCapture(LinkThread)
    \/ SetStatusWrite(LinkThread)
    \/ SetStatusFastPath(LinkThread)
    \/ SetStatusNotify(LinkThread)
    \/ ExtRead(LinkThread)
    \/ ExtAllocOk(LinkThread)
    \/ ExtAllocOom(LinkThread)
    \/ ExtCas(LinkThread)
    \/ ExtDcheck(LinkThread)
    \/ Return(LinkThread)

Spec == Init /\ [][Next]_vars

\* Extension data: every thread installs extension data on the class, with
\* failures pending or not.
NextExt ==
    \/ \E t \in Threads, c \in ClassIds : EnsureExtDataPresent(t, c)
    \/ \E t \in Threads, e \in Exceptions \cup {NoException} : SetException(t, e)
    \/ \E t \in Threads : ExtRead(t)
    \/ \E t \in Threads : ExtAllocOk(t)
    \/ \E t \in Threads : ExtAllocOom(t)
    \/ \E t \in Threads : ExtCas(t)
    \/ \E t \in Threads : ExtDcheck(t)
    \/ \E t \in Threads : ExtReread(t)
    \/ \E t \in Threads : Return(t)

SpecExt == Init /\ [][NextExt]_vars

\* Racing status changes: two threads call SetStatus on the same class, each
\* taking and leaving its monitor as it likes; the class linker is initialized.
RaceThreads == {1, 2}

\* The statuses the racing callers pass: Retired and every non-error status.
RaceStatuses == {s \in Statuses : ~IsErroneous(s)}

InitRace ==
    /\ Init
    /\ classLinkerInitialized
    /\ hdr[1] = LoaderHeader(OrdinaryKind)

NextRace ==
    \/ \E t \in RaceThreads, c \in ClassIds, s \in RaceStatuses : SetStatus(t, c, s)
    \/ \E t \in RaceThreads, c \in ClassIds : MonitorEnter(t, c)
    \/ \E t \in RaceThreads, c \in ClassIds : MonitorExit(t, c)
    \/ \E t \in RaceThreads : SetStatusWrite(t)
    \/ \E t \in RaceThreads : SetStatusFastPath(t)
    \/ \E t \in RaceThreads : SetStatusNotify(t)
    \/ \E t \in RaceThreads : Return(t)

SpecRace == InitRace /\ [][NextRace]_vars

\* Growth: the linking thread copies an instantiable class and its copies,
\* moves them through the statuses of loading and linking and takes their
\* monitors.
CopyStatuses ==
    {s \in kStatusRetired .. kStatusResolved : ~IsErroneous(s)}

InitCopy == Init /\ hdr[1] = LoaderHeader(OrdinaryKind)

NextCopy ==
    \/ \E c \in ClassIds, n \in (SizeofClass - 1) .. MaxClassSize, imt \in ImTables :
         CopyOf(LinkThread, c, n, imt)
    \/ \E c \in ClassIds, s \in CopyStatuses : SetStatus(LinkThread, c, s)
    \/ \E c \in ClassIds : MonitorEnter(LinkThread, c)
    \/ \E c \in ClassIds : MonitorExit(LinkThread, c)
    \/ CopyAllocOom(LinkThread)
    \/ CopyAllocOk(LinkThread)
    \/ CopyFinish(LinkThread)
    \/ SetStatusWrite(LinkThread)
    \/ SetStatusNotify(LinkThread)
    \/ Return(LinkThread)

SpecCopy == InitCopy /\ [][NextCopy]_vars

\* Failure marking: the linking thread marks a class erroneous, with failures
\* pending or not and holding its monitor or not, while every thread installs
\* extension data on the class.
MarkStatuses ==
    {kStatusErrorUnresolved, kStatusErrorResolved, kStatusLoaded, kStatusResolved}

InitMark == Init /\ hdr[1] = LoaderHeader(OrdinaryKind)

NextMark ==
    \/ \E c \in ClassIds, s \in MarkStatuses : SetStatus(LinkThread, c, s)
    \/ \E e \in Exceptions \cup {NoException} : SetException(LinkThread, e)
    \/ \E c \in ClassIds : MonitorEnter(LinkThread, c)
    \/ \E c \in ClassIds : MonitorExit(LinkThread, c)
    \/ \E t \in Threads, c \in ClassIds : EnsureExtDataPresent(t, c)
    \/ SetStatusErr(LinkThread)
    \/ SetStatusCapture(LinkThread)
    \/ SetStatusWrite(LinkThread)
    \/ SetStatusNotify(LinkThread)
    \/ \E t \in Threads : ExtRead(t)
    \/ \E t \in Threads : ExtAllocOk(t)
    \/ \E t \in Threads : ExtAllocOom(t)
    \/ \E t \in Threads : ExtCas(t)
    \/ \E t \in Threads : ExtDcheck(t)
    \/ \E t \in Threads : ExtReread(t)
    \/ \E t \in Threads : Return(t)

SpecMark == InitMark /\ [][NextMark]_vars

\* ------------------------------- Class::FindVirtualMethodForInterfaceSuper
\* The lookups read the graph the loader has built: in their specifications
\* hdr holds, per class, the member tables and the interface table, and the
\* frame of a call holds its arguments and its result.
NumIfaces == 3
IfaceIds == 1 .. NumIfaces
Receiver == NumIfaces + 1

\* An ArtMethod: its declaring class, its name and signature, and whether it
\* is a default method. nullptr is NoMethod.
Method(c, name, isDefault) == [name |-> name, isDefault |-> isDefault, declaringClass |-> c]
NoMethod == Method(Null, "", FALSE)

\* What an interface declares for f(): nothing, an abstract f(), a default f().
DeclKinds == {"none", "abstract", "default"}

\* The interface hierarchies: sets of pairs <<sub, super>> of direct extension.
Hierarchies ==
    { {}, {<<2, 1>>}, {<<1, 2>>}, {<<3, 1>>}, {<<3, 2>>, <<2, 1>>},
      {<<3, 1>>, <<3, 2>>}, {<<2, 1>>, <<3, 1>>} }

\* The superinterfaces of interface c, direct and inherited.
SuperInterfaces(c, ext) ==
    LET direct(d) == {i \in IfaceIds : <<d, i>> \in ext}
    IN  direct(c) \cup UNION {direct(d) : d \in direct(c)}

\* A set of class ids as an array, in ascending order.
AsArray(S) ==
    ArrayOf(CHOOSE a \in [1 .. Cardinality(S) -> S] :
               \A i, j \in 1 .. Cardinality(S) : i < j => a[i] < a[j],
            Cardinality(S))

\* The header of interface c: it declares g() and, by kind, f().
IfaceHeader(c, kind, ext) ==
    [isInterface |-> TRUE,
     declaredVirtualMethods |->
        <<Method(c, "g", FALSE)>> \o
        (IF kind = "none" THEN <<>> ELSE <<Method(c, "f", kind = "default")>>),
     copiedMethods |-> <<>>,
     iftable |-> AsArray(SuperInterfaces(c, ext))]

\* The interface tables the loader may have built: the interfaces in any
\* order, none of them twice.
IfTables ==
    UNION { {ArrayOf(tbl, n) :
               tbl \in {a \in [1 .. n -> IfaceIds] : \A i, j \in 1 .. n : i # j => a[i] # a[j]}} :
            n \in 0 .. NumIfaces }

\* The receiver's own virtual methods: declared ones, and default-conflict
\* methods the loader copied down.
OwnMethods ==
    { [declared |-> <<>>, copied |-> <<>>],
      [declared |-> <<Method(Receiver, "g", FALSE)>>, copied |-> <<>>],
      [declared |-> <<Method(Receiver, "g", FALSE)>>, copied |-> <<Method(1, "f", TRUE)>>],
      [declared |-> <<Method(Receiver, "f", FALSE)>>, copied |-> <<>>] }

ReceiverHeader(own, tbl, isInterface) ==
    [isInterface |-> isInterface,
     declaredVirtualMethods |-> own.declared,
     copiedMethods |-> own.copied,
     iftable |-> tbl]

\* Class::GetVirtualMethods: the declared virtual methods, then the copied ones.
GetVirtualMethods(c) == hdr[c].declaredVirtualMethods \o hdr[c].copiedMethods

\* Class::GetDeclaredVirtualMethods.
GetDeclaredVirtualMethods(c) == hdr[c].declaredVirtualMethods

\* ArtMethod::HasSameNameAndSignature; a name stands for name and signature.
HasSameNameAndSignature(m1, m2) == m1.name = m2.name

\* Class::IsAssignableFrom for an interface klass: src is klass or implements it.
IsAssignableFrom(klass, src) ==
    \/ klass = src
    \/ \E i \in 1 .. Len(hdr[src].iftable) : hdr[src].iftable[i] = klass

\* Lines 640-644: the first of methods[i..] with the name and signature of
\* method, or nullptr.
RECURSIVE FindSameNameAndSignature(_, _, _)
FindSameNameAndSignature(methods, method, i) ==
    IF i > Len(methods) THEN NoMethod
    ELSE IF HasSameNameAndSignature(method, methods[i]) THEN methods[i]
    ELSE FindSameNameAndSignature(methods, method, i + 1)

\* Mutant of GetInterface: the table is indexed from its other end.
GetInterfaceFromEnd(iftable, k) == iftable[Len(iftable) - k]

\* Line 661, IfTable::GetInterface(k): entry k of the table, counted from 0.
GetInterface(iftable, k) == iftable[k + 1]

\* Mutant of Overridden: no default method counts as overridden.
OverriddenNever(iface, abstract_methods) == FALSE

\* Lines 673-680: a default method of iface is overridden when an abstract
\* method stashed so far is declared by a subtype of iface.
Overridden(iface, abstract_methods) ==
    \E p \in 1 .. Len(abstract_methods) :
       IsAssignableFrom(iface, abstract_methods[p].declaringClass)

\* Lines 664-690, the inner loop over the declared methods of iface from
\* index i on: found is the default method returned at line 682, or nullptr
\* with the abstract methods stashed by then.
RECURSIVE ScanDeclaredMethods(_, _, _, _)
ScanDeclaredMethods(iface, method, i, abstract_methods) ==
    IF i > Len(GetDeclaredVirtualMethods(iface))
    THEN [found |-> NoMethod, abstract_methods |-> abstract_methods]
    ELSE LET current_method == GetDeclaredVirtualMethods(iface)[i]
         IN  IF ~HasSameNameAndSignature(current_method, method)
             THEN ScanDeclaredMethods(iface, method, i + 1, abstract_methods)
             ELSE IF current_method.isDefault
             THEN IF ~Overridden(iface, abstract_methods)
                  THEN [found |-> current_method, abstract_methods |-> abstract_methods]
                  ELSE ScanDeclaredMethods(iface, method, i + 1, abstract_methods)
             ELSE ScanDeclaredMethods(iface, method, i + 1,
                                      Append(abstract_methods, current_method))

\* Lines 658-696, the loop over the interface table with k entries left to
\* visit, from the last entry down to the first, and the final pick among
\* the abstract methods.
RECURSIVE ScanIfTable(_, _, _, _)
ScanIfTable(this, method, k, abstract_methods) ==
    IF k = 0
    THEN IF abstract_methods = <<>> THEN NoMethod ELSE abstract_methods[1]
    ELSE LET iface == GetInterface(hdr[this].iftable, k - 1)
             scan == ScanDeclaredMethods(iface, method, 1, abstract_methods)
         IN  IF scan.found # NoMethod
             THEN scan.found
             ELSE ScanIfTable(this, method, k - 1, scan.abstract_methods)

\* Class::FindVirtualMethodForInterfaceSuper, lines 640-696.
FindVirtualMethodForInterfaceSuper(this, method) ==
    LET iface_method == FindSameNameAndSignature(GetVirtualMethods(this), method, 1)
    IN  IF iface_method # NoMethod
        THEN iface_method
        ELSE ScanIfTable(this, method, Len(hdr[this].iftable), <<>>)

\* The frame of a lookup call that has returned ret.
LookupFrame(op, this, args, ret) ==
    [op |-> op, result |-> "returned", klass |-> this, args |-> args, ret |-> ret]

\* The state of the threads and of the status machine while lookups run.
LookupInit ==
    /\ classLinkerInitialized = TRUE
    /\ kIsDebugBuild \in BOOLEAN
    /\ status = [c \in ClassIds |-> kStatusResolved]
    /\ extData = [c \in ClassIds |-> Null]
    /\ lockOwner = [c \in ClassIds |-> Null]
    /\ objectSizeAllocFastPath = [c \in ClassIds |-> kFastPathUnset]
    /\ classSize = [c \in ClassIds |-> SizeofClass]
    /\ embeddedVTable = [c \in ClassIds |-> <<>>]
    /\ numExt = 0
    /\ verifyError = [e \in ExtIds |-> NoException]
    /\ exception = [t \in Threads |-> NoException]
    /\ pc = [t \in Threads |-> "idle"]
    /\ frame = [t \in Threads |-> NoFrame]
    /\ aborted = FALSE
    /\ errorTransitions = [c \in ClassIds |-> 0]
    /\ everResolved = [c \in ClassIds |-> TRUE]
    /\ java_lang_Class_ = Null
    /\ rootCalls = <<>>

\* A call this->FindVirtualMethodForInterfaceSuper(method) by an idle thread;
\* lines 635-636 are DCHECKs.
CallFindVirtualMethodForInterfaceSuper(t, this, method) ==
    /\ ~aborted /\ pc[t] = "idle"
    /\ LET f == LookupFrame("FindVirtualMethodForInterfaceSuper", this, <<method>>,
                            FindVirtualMethodForInterfaceSuper(this, method))
       IN  IF kIsDebugBuild /\ (~hdr[method.declaringClass].isInterface
                                \/ ~hdr[this].isInterface)
           THEN Abort(t, [f EXCEPT !.ret = NoMethod])
           ELSE /\ pc' = [pc EXCEPT ![t] = "done"]
                /\ frame' = [frame EXCEPT ![t] = f]
                /\ aborted' = aborted
    /\ UNCHANGED <<rootVars, classLinkerInitialized, kIsDebugBuild, classVars, numExt,
                   verifyError, exception>>

\* Interface-super lookups: the loader has built three interfaces and a
\* receiver; the linking thread looks up f() and g().
InitIfaceSuper ==
    /\ LookupInit
    /\ allocated = IfaceIds \cup {Receiver}
    /\ \E ext \in Hierarchies, decl \in [IfaceIds -> DeclKinds], tbl \in IfTables,
          own \in OwnMethods, isInterface \in BOOLEAN :
         hdr = [c \in IfaceIds \cup {Receiver} |->
                  IF c \in IfaceIds THEN IfaceHeader(c, decl[c], ext)
                  ELSE ReceiverHeader(own, tbl, isInterface)]

\* The methods looked up: the abstract methods "f" and "g" of interface 1.
LookedUpMethods == {Method(1, name, FALSE) : name \in {"f", "g"}}

NextIfaceSuper ==
    \/ \E method \in LookedUpMethods :
         CallFindVirtualMethodForInterfaceSuper(LinkThread, Receiver, method)
    \/ Return(LinkThread)

SpecIfaceSuper == InitIfaceSuper /\ [][NextIfaceSuper]_vars

\* ---------------------------------------------- FindFieldByNameAndType
\* Field names and type descriptors are strings; a string is modelled by its
\* rank in the order of StringPiece::Compare.
MaxFields == 3
FieldNames == 1 .. 3
FieldTypes == 1 .. 2

\* StringPiece::Compare: negative, zero or positive.
StringPieceCompare(a, b) == IF a < b THEN -1 ELSE IF a > b THEN 1 ELSE 0

\* An ArtField of a field array: its name and its type descriptor.
ArtField(name, type) == [name |-> name, type |-> type]

\* A LengthPrefixedArray<ArtField>*: nullptr, or an array of fields.
NullArray == [isNull |-> TRUE, elems |-> <<>>]
FieldArray(elems) == [isNull |-> FALSE, elems |-> elems]

\* Field a comes before field b in the order of the dex file: by name, then
\* by type descriptor.
FieldBefore(a, b) == a.name < b.name \/ (a.name = b.name /\ a.type < b.type)

\* The field arrays of a class that passed the dex file verifier: sorted
\* strictly ascending.
SortedFieldArrays ==
    UNION { {FieldArray(ArrayOf(e, n)) :
               e \in {a \in [1 .. n -> [name : FieldNames, type : FieldTypes]] :
                        \A i \in 1 .. (n - 1) : FieldBefore(a[i], a[i + 1])}} :
            n \in 0 .. MaxFields }

\* Mutant of LowAfter: the search resumes two entries after mid.
LowAfterSkip(mid) == mid + 2

\* Line 731: the search resumes after mid.
LowAfter(mid) == mid + 1

\* Lines 721-738, the binary search between low and high, indices from 0:
\* the field found, as its index from 1, or nullptr.
RECURSIVE BinarySearch(_, _, _, _, _)
BinarySearch(fields, name, type, low, high) ==
    IF ~(low < high) THEN Null
    ELSE LET mid == (low + high) \div 2
             field == fields.elems[mid + 1]
             byName == StringPieceCompare(field.name, name)
             result == IF byName = 0 THEN StringPieceCompare(field.type, type) ELSE byName
         IN  IF result < 0 THEN BinarySearch(fields, name, type, LowAfter(mid), high)
             ELSE IF result > 0 THEN BinarySearch(fields, name, type, low, mid)
             ELSE mid + 1

\* Lines 740-746, the linear scan of the debug build from index i on.
RECURSIVE LinearScan(_, _, _, _)
LinearScan(fields, name, type, i) ==
    IF i > Len(fields.elems) THEN Null
    ELSE IF name = fields.elems[i].name /\ type = fields.elems[i].type THEN i
    ELSE LinearScan(fields, name, type, i + 1)

\* FindFieldByNameAndType, lines 715-738 and 749: the value it returns.
FindFieldByNameAndType(fields, name, type) ==
    IF fields.isNull THEN Null
    ELSE BinarySearch(fields, name, type, 0, Len(fields.elems))

\* Lines 739-748: the cross-check of the debug build fails.
CrossCheckFails(fields, name, type) ==
    /\ ~fields.isNull
    /\ kIsDebugBuild
    /\ LinearScan(fields, name, type, 1) # FindFieldByNameAndType(fields, name, type)

\* Class::FindDeclaredInstanceField(name, type), lines 752-755, by an idle thread.
FindDeclaredInstanceField(t, this, name, type) ==
    /\ ~aborted /\ pc[t] = "idle"
    /\ LET fields == hdr[this].ifields
           f == LookupFrame("FindDeclaredInstanceField", this, <<name, type>>,
                            FindFieldByNameAndType(fields, name, type))
       IN  IF CrossCheckFails(fields, name, type)
           THEN Abort(t, f)
           ELSE /\ pc' = [pc EXCEPT ![t] = "done"]
                /\ frame' = [frame EXCEPT ![t] = f]
                /\ aborted' = aborted
    /\ UNCHANGED <<rootVars, classLinkerInitialized, kIsDebugBuild, classVars, numExt,
                   verifyError, exception>>

\* Field lookups: the loader has built a class with no instance fields or
\* with a sorted array of them; the linking thread looks fields up in it.
InitFields ==
    /\ LookupInit
    /\ allocated = {1}
    /\ \E fields \in SortedFieldArrays \cup {NullArray} :
         hdr = [c \in {1} |-> [ifields |-> fields]]

NextFields ==
    \/ \E name \in FieldNames, type \in FieldTypes :
         FindDeclaredInstanceField(LinkThread, 1, name, type)
    \/ Return(LinkThread)

SpecFields == InitFields /\ [][NextFields]_vars

\* ------------------------------------------------ Class::IsInSamePackage
\* Lines 352-356: the length of the common prefix of the two descriptors,
\* counted from i.
RECURSIVE CommonPrefixLength(_, _, _)
CommonPrefixLength(descriptor1, descriptor2, i) ==
    LET min_length == IF Len(descriptor1) < Len(descriptor2)
                      THEN Len(descriptor1) ELSE Len(descriptor2)
    IN  IF i < min_length /\ descriptor1[i + 1] = descriptor2[i + 1]
        THEN CommonPrefixLength(descriptor1, descriptor2, i + 1)
        ELSE i

\* descriptor.find('/', i) != StringPiece::npos, positions counted from 0.
FindsSlash(descriptor, i) == \E j \in i .. (Len(descriptor) - 1) : descriptor[j + 1] = "/"

\* Mutant of SlashAfterPrefix: only the first descriptor is searched.
SlashAfterPrefixInFirst(descriptor1, descriptor2, i) == FindsSlash(descriptor1, i)

\* Lines 357-358: one of the descriptors has a '/' at or after position i.
SlashAfterPrefix(descriptor1, descriptor2, i) ==
    FindsSlash(descriptor1, i) \/ FindsSlash(descriptor2, i)

\* Class::IsInSamePackage(descriptor1, descriptor2), lines 351-363.
IsInSamePackageDescriptors(descriptor1, descriptor2) ==
    LET i == CommonPrefixLength(descriptor1, descriptor2, 0)
    IN  IF SlashAfterPrefix(descriptor1, descriptor2, i) THEN FALSE ELSE TRUE

\* Lines 376-381: the innermost component type of klass.
RECURSIVE ElementClass(_)
ElementClass(klass) ==
    IF hdr[klass].isArrayClass THEN ElementClass(hdr[klass].componentType) ELSE klass

\* Mutant of SameClassLoader: the class loaders are not compared.
SameClassLoaderAlways(klass1, klass2) == TRUE

\* Line 372: the class loaders match.
SameClassLoader(klass1, klass2) == hdr[klass1].classLoader = hdr[klass2].classLoader

\* Class::IsInSamePackage(that), lines 365-389.
IsInSamePackage(this, that) ==
    IF this = that THEN TRUE
    ELSE IF ~SameClassLoader(this, that) THEN FALSE
    ELSE LET klass1 == ElementClass(this)
             klass2 == ElementClass(that)
         IN  IF klass1 = klass2 THEN TRUE
             ELSE IsInSamePackageDescriptors(GetDescriptor(klass1), GetDescriptor(klass2))

\* A call this->IsInSamePackage(that) by an idle thread.
CallIsInSamePackage(t, this, that) ==
    /\ ~aborted /\ pc[t] = "idle"
    /\ pc' = [pc EXCEPT ![t] = "done"]
    /\ frame' = [frame EXCEPT ![t] =
                   LookupFrame("IsInSamePackage", this, <<that>>, IsInSamePackage(this, that))]
    /\ UNCHANGED <<rootVars, classLinkerInitialized, kIsDebugBuild, classVars, numExt,
                   verifyError, exception, aborted>>

\* The class loaders: the boot class loader (null) and an application loader.
ClassLoaders == {Null, 1}

\* The classes of the package specification: two classes loaded from the dex
\* file, an array of the first, and an array of the second or of that array.
PackageClasses == 1 .. 4

\* A class loaded from a dex file, and an array class; the class linker gives
\* an array class the class loader of its component type.
DexClassHeader(idx, loader) ==
    [isArrayClass |-> FALSE, componentType |-> Null, classLoader |-> loader,
     dexClassDefIdx |-> idx]
ArrayClassHeader(component, loader) ==
    [isArrayClass |-> TRUE, componentType |-> component, classLoader |-> loader,
     dexClassDefIdx |-> 1]

\* Package membership: a class loader defines at most one class of a name.
InitPackage ==
    /\ LookupInit
    /\ allocated = PackageClasses
    /\ \E idx1, idx2 \in 1 .. Len(DexTypeDescriptor), loader1, loader2 \in ClassLoaders,
          component \in {2, 3} :
         /\ ~(idx1 = idx2 /\ loader1 = loader2)
         /\ hdr = [c \in PackageClasses |->
                     CASE c = 1 -> DexClassHeader(idx1, loader1)
                       [] c = 2 -> DexClassHeader(idx2, loader2)
                       [] c = 3 -> ArrayClassHeader(1, loader1)
                       [] c = 4 -> ArrayClassHeader(component,
                                                    IF component = 2 THEN loader2 ELSE loader1)]

NextPackage ==
    \/ \E this, that \in PackageClasses : CallIsInSamePackage(LinkThread, this, that)
    \/ Return(LinkThread)

SpecPackage == InitPackage /\ [][NextPackage]_vars

\* ------------------------------------------------ Class::FindStaticField
\* The class graph of the field lookups, by class id: Object; the interfaces
\* I0, I (which extends I0) and J; the class S, which implements J; and the
\* class K, which extends S and implements I and J in one of two orders.
\* The superclass of an interface is Object.
ClassGraphs ==
    { << [superClass |-> Null, directInterfaces |-> <<>>],
         [superClass |-> 1, directInterfaces |-> <<>>],
         [superClass |-> 1, directInterfaces |-> <<2>>],
         [superClass |-> 1, directInterfaces |-> <<>>],
         [superClass |-> 1, directInterfaces |-> <<4>>],
         [superClass |-> 5, directInterfaces |-> ifaces] >> :
      ifaces \in { <<3, 4>>, <<4, 3>> } }

GraphClasses == 1 .. 6

\* The static fields a class of the graph declares: none, a, or a and x.
StaticFieldArrays ==
    { NullArray, FieldArray(<<ArtField(1, 1)>>), FieldArray(<<ArtField(1, 1), ArtField(2, 1)>>) }

\* An ArtField*: the class whose array holds the field and its index there.
FieldPtr(klass, index) == [declaringClass |-> klass, index |-> index]
NoField == FieldPtr(Null, Null)

\* Class::FindDeclaredStaticField(name, type), lines 791-794.
FindDeclaredStaticField(k, name, type) ==
    LET index == FindFieldByNameAndType(hdr[k].sfields, name, type)
    IN  IF index = Null THEN NoField ELSE FieldPtr(k, index)

\* Class::NumDirectInterfaces.
NumDirectInterfaces(k) == Len(hdr[k].directInterfaces)

\* Mutant of GetDirectInterface: the interfaces are taken from the last one.
GetDirectInterfaceFromEnd(k, i) == hdr[k].directInterfaces[Len(hdr[k].directInterfaces) - i]

\* Class::GetDirectInterface(self, k, i), i counted from 0.
GetDirectInterface(k, i) == hdr[k].directInterfaces[i + 1]

\* Class::FindStaticField(self, klass, name, type), lines 814-830, and its
\* loop over the direct interfaces of k from index i on, lines 821-828.
RECURSIVE FindStaticField(_, _, _)
RECURSIVE FindStaticFieldInInterfaces(_, _, _, _)
FindStaticField(klass, name, type) ==
    IF klass = Null THEN NoField
    ELSE LET f == FindDeclaredStaticField(klass, name, type)
         IN  IF f # NoField THEN f
             ELSE LET g == FindStaticFieldInInterfaces(klass, 0, name, type)
                  IN  IF g # NoField THEN g
                      ELSE FindStaticField(hdr[klass].superClass, name, type)

FindStaticFieldInInterfaces(k, i, name, type) ==
    IF i = NumDirectInterfaces(k) THEN NoField
    ELSE LET f == FindStaticField(GetDirectInterface(k, i), name, type)
         IN  IF f # NoField THEN f
             ELSE FindStaticFieldInInterfaces(k, i + 1, name, type)

\* A call Class::FindStaticField(self, klass, name, type) by an idle thread;
\* the debug build cross-checks every search of a field array.
CallFindStaticField(t, klass, name, type) ==
    /\ ~aborted /\ pc[t] = "idle"
    /\ LET f == LookupFrame("FindStaticField", klass, <<name, type>>,
                            FindStaticField(klass, name, type))
       IN  IF \E k \in GraphClasses : CrossCheckFails(hdr[k].sfields, name, type)
           THEN Abort(t, [f EXCEPT !.ret = NoField])
           ELSE /\ pc' = [pc EXCEPT ![t] = "done"]
                /\ frame' = [frame EXCEPT ![t] = f]
                /\ aborted' = aborted
    /\ UNCHANGED <<rootVars, classLinkerInitialized, kIsDebugBuild, classVars, numExt,
                   verifyError, exception>>

\* Static-field lookups: the loader has built the class graph, each class
\* with its static fields; the linking thread looks a and x up from any class.
InitStaticField ==
    /\ LookupInit
    /\ allocated = GraphClasses
    /\ \E graph \in ClassGraphs, sfields \in [GraphClasses -> StaticFieldArrays] :
         hdr = [c \in GraphClasses |->
                  [superClass |-> graph[c].superClass,
                   directInterfaces |-> graph[c].directInterfaces,
                   sfields |-> sfields[c]]]

NextStaticField ==
    \/ \E klass \in GraphClasses, name \in {1, 2} : CallFindStaticField(LinkThread, klass, name, 1)
    \/ Return(LinkThread)

SpecStaticField == InitStaticField /\ [][NextStaticField]_vars

\* ------------------------------------------------------ Class::FindField
\* An ArtField* into the instance field array of a class.
InstanceFieldPtr(klass, index) == [declaringClass |-> klass, index |-> index, instance |-> TRUE]

\* Class::FindDeclaredInstanceField(name, type), lines 752-755: the value it
\* returns.
DeclaredInstanceField(k, name, type) ==
    LET index == FindFieldByNameAndType(hdr[k].ifields, name, type)
    IN  IF index = Null THEN NoField ELSE InstanceFieldPtr(k, index)

\* Mutant of FindDeclaredField: the static fields are searched first.
FindDeclaredFieldStaticFirst(k, name, type) ==
    LET f == FindDeclaredStaticField(k, name, type)
    IN  IF f # NoField THEN f ELSE DeclaredInstanceField(k, name, type)

\* Lines 864-872: the field class k itself declares, its instance fields
\* searched first, then its static fields.
FindDeclaredField(k, name, type) ==
    LET f == DeclaredInstanceField(k, name, type)
    IN  IF f # NoField THEN f ELSE FindDeclaredStaticField(k, name, type)

\* Class::FindField(self, klass, name, type), lines 859-885.
RECURSIVE FindField(_, _, _)
FindField(klass, name, type) ==
    IF klass = Null THEN NoField
    ELSE LET f == FindDeclaredField(klass, name, type)
         IN  IF f # NoField THEN f
             ELSE LET g == FindStaticFieldInInterfaces(klass, 0, name, type)
                  IN  IF g # NoField THEN g
                      ELSE FindField(hdr[klass].superClass, name, type)

\* A call Class::FindField(self, klass, name, type) by an idle thread; the
\* debug build cross-checks every search of a field array.
CallFindField(t, klass, name, type) ==
    /\ ~aborted /\ pc[t] = "idle"
    /\ LET f == LookupFrame("FindField", klass, <<name, type>>, FindField(klass, name, type))
       IN  IF \E k \in GraphClasses : \/ CrossCheckFails(hdr[k].sfields, name, type)
                                      \/ CrossCheckFails(hdr[k].ifields, name, type)
           THEN Abort(t, [f EXCEPT !.ret = NoField])
           ELSE /\ pc' = [pc EXCEPT ![t] = "done"]
                /\ frame' = [frame EXCEPT ![t] = f]
                /\ aborted' = aborted
    /\ UNCHANGED <<rootVars, classLinkerInitialized, kIsDebugBuild, classVars, numExt,
                   verifyError, exception>>

\* The classes of the graph that are not interfaces: Object, S and K.
GraphNonInterfaces == {c \in GraphClasses : c = 1 \/ c >= 5}

\* Field lookups: every class of the graph declares the static fields a and
\* x or none, and every class that is not an interface declares the
\* instance field x or none; the linking thread looks a and x up.
InitFindField ==
    /\ LookupInit
    /\ allocated = GraphClasses
    /\ \E graph \in ClassGraphs,
          sfields \in [GraphClasses ->
                         {NullArray, FieldArray(<<ArtField(1, 1), ArtField(2, 1)>>)}],
          ifields \in [GraphNonInterfaces -> {NullArray, FieldArray(<<ArtField(2, 1)>>)}] :
         hdr = [c \in GraphClasses |->
                  [superClass |-> graph[c].superClass,
                   directInterfaces |-> graph[c].directInterfaces,
                   sfields |-> sfields[c],
                   ifields |-> IF c \in GraphNonInterfaces THEN ifields[c] ELSE NullArray]]

NextFindField ==
    \/ \E klass \in GraphClasses, name \in {1, 2} : CallFindField(LinkThread, klass, name, 1)
    \/ Return(LinkThread)

SpecFindField == InitFindField /\ [][NextFindField]_vars

\* ------------------------------------- lookups along the superclass chain
\* An ArtMethod*: the class whose method array holds the method, whether it
\* is held among the direct or the virtual methods, and its index there.
ArtMethodPtr(klass, direct, index) == [holder |-> klass, direct |-> direct, index |-> index]
NoArtMethod == ArtMethodPtr(Null, FALSE, Null)

\* The index of the first of methods[i..] with the given name and signature,
\* or Null: the loops of lines 467-471 and 553-558.
RECURSIVE FirstNamed(_, _, _)
FirstNamed(methods, name, i) ==
    IF i > Len(methods) THEN Null
    ELSE IF methods[i].name = name THEN i
    ELSE FirstNamed(methods, name, i + 1)

\* Class::GetDirectMethods.
GetDirectMethods(c) == hdr[c].directMethods

\* Class::FindDeclaredDirectMethod(name, signature), lines 464-473.
FindDeclaredDirectMethod(k, name) ==
    LET i == FirstNamed(GetDirectMethods(k), name, 1)
    IN  IF i = Null THEN NoArtMethod ELSE ArtMethodPtr(k, TRUE, i)

\* Class::FindDeclaredVirtualMethod(name, signature), lines 550-560: the scan
\* covers the copied methods as well as the declared ones.
FindDeclaredVirtualMethod(k, name) ==
    LET i == FirstNamed(GetVirtualMethods(k), name, 1)
    IN  IF i = Null THEN NoArtMethod ELSE ArtMethodPtr(k, FALSE, i)

\* Mutant of GetSuperClass: no class has a superclass.
GetSuperClassNone(k) == Null

\* Class::GetSuperClass as the loops of lines 502, 601 and 771 step with it.
GetSuperClass(k) == hdr[k].superClass

\* Class::FindDirectMethod(name, signature), lines 499-509.
RECURSIVE FindDirectMethod(_, _)
FindDirectMethod(klass, name) ==
    IF klass = Null THEN NoArtMethod
    ELSE LET method == FindDeclaredDirectMethod(klass, name)
         IN  IF method # NoArtMethod THEN method
             ELSE FindDirectMethod(GetSuperClass(klass), name)

\* Class::FindVirtualMethod(name, signature), lines 598-608.
RECURSIVE FindVirtualMethod(_, _)
FindVirtualMethod(klass, name) ==
    IF klass = Null THEN NoArtMethod
    ELSE LET method == FindDeclaredVirtualMethod(klass, name)
         IN  IF method # NoArtMethod THEN method
             ELSE FindVirtualMethod(GetSuperClass(klass), name)

\* Class::FindInstanceField(name, type), lines 768-778.
RECURSIVE FindInstanceField(_, _, _)
FindInstanceField(c, name, type) ==
    IF c = Null THEN NoField
    ELSE LET f == DeclaredInstanceField(c, name, type)
         IN  IF f # NoField THEN f
             ELSE FindInstanceField(GetSuperClass(c), name, type)

\* Lines 412-419: the scan of the interface table of this from entry i on.
RECURSIVE ScanInterfaces(_, _, _)
ScanInterfaces(this, i, name) ==
    IF i >= Len(hdr[this].iftable) THEN NoArtMethod
    ELSE LET method == FindDeclaredVirtualMethod(GetInterface(hdr[this].iftable, i), name)
         IN  IF method # NoArtMethod THEN method
             ELSE ScanInterfaces(this, i + 1, name)

\* Mutant of FindInterfaceMethod: the superclass chain is searched before
\* the interface table.
FindInterfaceMethodThroughSuper(this, name) ==
    LET method == FindVirtualMethod(this, name)
    IN  IF method # NoArtMethod THEN method ELSE ScanInterfaces(this, 0, name)

\* Class::FindInterfaceMethod(name, signature), lines 403-421.
FindInterfaceMethod(this, name) ==
    LET method == FindDeclaredVirtualMethod(this, name)
    IN  IF method # NoArtMethod THEN method ELSE ScanInterfaces(this, 0, name)

\* A lookup of a method or an instance field by an idle thread: op names the
\* function called on this and ret is what it returns; the debug build
\* cross-checks every search of a field array.
CallChainLookup(t, op, this, args, ret) ==
    /\ ~aborted /\ pc[t] = "idle"
    /\ IF /\ op = "FindInstanceField"
          /\ \E k \in GraphClasses : CrossCheckFails(hdr[k].ifields, args[1], args[2])
       THEN Abort(t, LookupFrame(op, this, args, NoField))
       ELSE /\ pc' = [pc EXCEPT ![t] = "done"]
            /\ frame' = [frame EXCEPT ![t] = LookupFrame(op, this, args, ret)]
            /\ aborted' = aborted
    /\ UNCHANGED <<rootVars, classLinkerInitialized, kIsDebugBuild, classVars, numExt,
                   verifyError, exception>>

CallFindInstanceField(t, this, name, type) ==
    CallChainLookup(t, "FindInstanceField", this, <<name, type>>,
                    FindInstanceField(this, name, type))

CallFindDirectMethod(t, this, name) ==
    CallChainLookup(t, "FindDirectMethod", this, <<name>>, FindDirectMethod(this, name))

CallFindVirtualMethod(t, this, name) ==
    CallChainLookup(t, "FindVirtualMethod", this, <<name>>, FindVirtualMethod(this, name))

CallFindInterfaceMethod(t, this, name) ==
    CallChainLookup(t, "FindInterfaceMethod", this, <<name>>, FindInterfaceMethod(this, name))

\* The interface table the linker builds for each class of the graph: the
\* table of the superclass first, then each new interface after its own
\* superinterfaces.
GraphIfTables == << <<>>, <<>>, <<2>>, <<>>, <<4>>, <<4, 2, 3>> >>

\* The interfaces of the graph: I0, I and J.
GraphInterfaces == GraphClasses \ GraphNonInterfaces

\* Method and instance field lookups. Every class but Object declares a
\* virtual f() or not; interface J and the classes S and K declare a direct
\* d() or not; the classes declare an instance field x or not. Once linked, K
\* holds a copy of the default f() of interface I when neither K nor S
\* declares f(); before that it holds none.
InitChain ==
    /\ LookupInit
    /\ allocated = GraphClasses
    /\ \E graph \in ClassGraphs,
          virtuals \in SUBSET (GraphClasses \ {1}),
          directs \in SUBSET {4, 5, 6},
          fields \in SUBSET GraphNonInterfaces,
          linked \in BOOLEAN :
         hdr = [c \in GraphClasses |->
                  [superClass |-> graph[c].superClass,
                   iftable |-> GraphIfTables[c],
                   isInterface |-> c \in GraphInterfaces,
                   declaredVirtualMethods |->
                       IF c \in virtuals
                       THEN <<Method(c, "g", FALSE), Method(c, "f", c = 3)>>
                       ELSE <<Method(c, "g", FALSE)>>,
                   copiedMethods |->
                       IF c = 6 /\ linked /\ 3 \in virtuals /\ virtuals \cap {5, 6} = {}
                       THEN <<Method(3, "f", TRUE)>>
                       ELSE <<>>,
                   directMethods |->
                       IF c \in directs
                       THEN <<Method(c, "<init>", FALSE), Method(c, "d", FALSE)>>
                       ELSE <<>>,
                   ifields |-> IF c \in fields THEN FieldArray(<<ArtField(2, 1)>>)
                               ELSE NullArray]]

NextChain ==
    \/ \E this \in GraphClasses : CallFindInstanceField(LinkThread, this, 2, 1)
    \/ \E this \in GraphClasses : CallFindDirectMethod(LinkThread, this, "d")
    \/ \E this \in GraphClasses : CallFindVirtualMethod(LinkThread, this, "f")
    \/ \E this \in GraphClasses : CallFindInterfaceMethod(LinkThread, this, "f")
    \/ Return(LinkThread)

SpecChain == InitChain /\ [][NextChain]_vars

\* ------------------------- Class::SetClassClass, ResetClass, VisitRoots
\* SetClassClass and ResetClass calls the model follows before it stops
\* accepting further ones.
MaxRootCalls == 4

\* Class flags (class_flags.h), by name.
kClassFlagNormal == "kClassFlagNormal"
kClassFlagNoReferenceFields == "kClassFlagNoReferenceFields"
kClassFlagClass == "kClassFlagClass"

\* The header of a class object at bootstrap: its class flags.
RootHeader(flags) == [classFlags |-> flags]

\* Mutant of SetClassClassFails: the CHECK of line 50 is missing.
SetClassClassFailsNullOnly(java_lang_Class) == java_lang_Class = Null

\* Lines 50-53: one of the two CHECKs of SetClassClass fails: a root is
\* registered already, or the argument is null.
SetClassClassFails(java_lang_Class) ==
    java_lang_Class_ # Null \/ java_lang_Class = Null

\* A call Class::SetClassClass(java_lang_Class) by an idle thread, lines 49-56.
SetClassClass(t, java_lang_Class) ==
    /\ ~aborted /\ pc[t] = "idle"
    /\ LET f == LookupFrame("SetClassClass", Null, <<java_lang_Class>>, Null)
       IN  IF SetClassClassFails(java_lang_Class)
           THEN Abort(t, f) /\ UNCHANGED <<hdr, rootVars>>
           ELSE /\ Len(rootCalls) < MaxRootCalls
                /\ hdr' = [hdr EXCEPT ![java_lang_Class].classFlags = kClassFlagClass]
                /\ java_lang_Class_' = java_lang_Class
                /\ rootCalls' = Append(rootCalls, "SetClassClass")
                /\ pc' = [pc EXCEPT ![t] = "done"]
                /\ frame' = [frame EXCEPT ![t] = f]
                /\ aborted' = aborted
    /\ UNCHANGED <<classLinkerInitialized, kIsDebugBuild, allocated, status, extData,
                   lockOwner, objectSizeAllocFastPath, classSize, embeddedVTable, numExt,
                   verifyError, exception, errorTransitions, everResolved>>

\* A call Class::ResetClass() by an idle thread, lines 58-61.
ResetClass(t) ==
    /\ ~aborted /\ pc[t] = "idle"
    /\ LET f == LookupFrame("ResetClass", Null, <<>>, Null)
       IN  IF java_lang_Class_ = Null
           THEN Abort(t, f) /\ UNCHANGED rootVars
           ELSE /\ Len(rootCalls) < MaxRootCalls
                /\ java_lang_Class_' = Null
                /\ rootCalls' = Append(rootCalls, "ResetClass")
                /\ pc' = [pc EXCEPT ![t] = "done"]
                /\ frame' = [frame EXCEPT ![t] = f]
                /\ aborted' = aborted
    /\ UNCHANGED <<classLinkerInitialized, kIsDebugBuild, classVars, numExt,
                   verifyError, exception>>

\* GcRoot::VisitRootIfNonNull: the roots the visitor is given.
VisitRootIfNonNull(root) == IF root # Null THEN <<root>> ELSE <<>>

\* A call Class::VisitRoots(visitor) by an idle thread, lines 63-65; ret is
\* the sequence of roots reported to the visitor.
VisitRoots(t) ==
    /\ ~aborted /\ pc[t] = "idle"
    /\ pc' = [pc EXCEPT ![t] = "done"]
    /\ frame' = [frame EXCEPT ![t] =
                   LookupFrame("VisitRoots", Null, <<>>,
                               VisitRootIfNonNull(java_lang_Class_))]
    /\ UNCHANGED <<rootVars, classLinkerInitialized, kIsDebugBuild, classVars, numExt,
                   verifyError, exception, aborted>>

\* Bootstrap: the class objects exist, NotReady, with the flags the
\* allocation gave them; no root is registered.
InitRoot ==
    /\ classLinkerInitialized = FALSE
    /\ kIsDebugBuild \in BOOLEAN
    /\ allocated = ClassIds
    /\ status = [c \in ClassIds |-> kStatusNotReady]
    /\ extData = [c \in ClassIds |-> Null]
    /\ lockOwner = [c \in ClassIds |-> Null]
    /\ objectSizeAllocFastPath = [c \in ClassIds |-> kFastPathUnset]
    /\ classSize = [c \in ClassIds |-> SizeofClass]
    /\ \E flags \in [ClassIds -> {kClassFlagNormal, kClassFlagNoReferenceFields}] :
         hdr = [c \in ClassIds |-> RootHeader(flags[c])]
    /\ embeddedVTable = [c \in ClassIds |-> <<>>]
    /\ numExt = 0
    /\ verifyError = [e \in ExtIds |-> NoException]
    /\ exception = [t \in Threads |-> NoException]
    /\ pc = [t \in Threads |-> "idle"]
    /\ frame = [t \in Threads |-> NoFrame]
    /\ aborted = FALSE
    /\ errorTransitions = [c \in ClassIds |-> 0]
    /\ everResolved = [c \in ClassIds |-> FALSE]
    /\ java_lang_Class_ = Null
    /\ rootCalls = <<>>

\* The runtime registers and resets the root and the collector visits it;
\* these calls are made by one thread at a time.
NextRoot ==
    \/ \E c \in ClassIds \cup {Null} : SetClassClass(LinkThread, c)
    \/ ResetClass(LinkThread)
    \/ VisitRoots(LinkThread)
    \/ Return(LinkThread)

SpecRoot == InitRoot /\ [][NextRoot]_vars

\* ------------------------------------------------------------ claims
\* The three statuses a change back may lead to.
SanctionedRegression(s) ==
    s = kStatusRetired \/ s = kStatusErrorUnresolved \/ s = kStatusErrorResolved

\* A SetStatus call of thread t, made by the thread itself, has returned.
SetStatusDone(t) ==
    pc[t] = "done" /\ frame[t].op = "SetStatus" /\ frame[t].result = "returned"

\* C1: with the class linker initialized, a SetStatus call whose new status is
\* not strictly greater than the status it read, and is none of Retired,
\* ErrorUnresolved, ErrorResolved, aborts (new = old included); and no step
\* lowers a class's status except to one of these three.
C1_ForwardOnly ==
    /\ [](\A t \in Threads :
            (/\ classLinkerInitialized
             /\ frame[t].op = "SetStatus"
             /\ frame[t].new_status <= frame[t].old_status
             /\ ~SanctionedRegression(frame[t].new_status))
            => pc[t] = "aborted")
    /\ [][\A c \in ClassIds :
            (classLinkerInitialized /\ status'[c] < status[c])
            => SanctionedRegression(status'[c])]_vars

\* C1 witness: a call with the status the class already has (Loaded) has aborted.
C1_Witness ==
    /\ classLinkerInitialized
    /\ \E t \in Threads :
         /\ pc[t] = "aborted" /\ frame[t].op = "SetStatus"
         /\ frame[t].old_status = kStatusLoaded
         /\ frame[t].new_status = kStatusLoaded

\* Thread t is inside a SetStatus call it made.
InSetStatus(t) ==
    frame[t].op = "SetStatus" /\ pc[t] \notin {"idle", "done", "aborted"}

\* The transition thread t asked for has its old or its new status at or
\* above Resolved.
AtOrAboveResolved(t) ==
    frame[t].new_status >= kStatusResolved \/ frame[t].old_status >= kStatusResolved

\* C2: with the class linker initialized, a SetStatus call whose old or new
\* status is at or above Resolved gets past its entry only in a thread that
\* owns the class's monitor, and owns it until the call has returned; so no
\* two threads are inside such a transition of the same class at once.
C2_LockHeld ==
    /\ \A t \in Threads :
          (/\ classLinkerInitialized
           /\ frame[t].op = "SetStatus" /\ pc[t] # "aborted"
           /\ AtOrAboveResolved(t))
          => lockOwner[frame[t].klass] = t
    /\ \A t1, t2 \in Threads :
          (/\ t1 # t2 /\ classLinkerInitialized
           /\ InSetStatus(t1) /\ InSetStatus(t2)
           /\ frame[t1].klass = frame[t2].klass)
          => ~(AtOrAboveResolved(t1) /\ AtOrAboveResolved(t2))

\* C2 witness: one thread, owning the monitor, is about to write Resolved
\* while another thread is inside a SetStatus call on the same class.
C2_Witness ==
    /\ classLinkerInitialized
    /\ \E t1, t2 \in Threads :
         /\ t1 # t2
         /\ InSetStatus(t1) /\ pc[t1] = "ss_write"
         /\ frame[t1].new_status = kStatusResolved
         /\ lockOwner[frame[t1].klass] = t1
         /\ InSetStatus(t2) /\ frame[t2].klass = frame[t1].klass

\* C3: a call of EnsureExtDataPresent that has returned a record returned
\* the record installed in the class's slot, a call returns none only with
\* an OOM error pending, and a slot that is filled never changes: of the
\* records the racing threads allocate, one is installed.
C3_ExactlyOnce ==
    /\ [](\A t \in Threads :
            (pc[t] = "done" /\ frame[t].op = "EnsureExtDataPresent")
            => IF frame[t].ret = Null
               THEN exception[t] = OOME
               ELSE frame[t].ret = extData[frame[t].ext_this])
    /\ [][\A c \in ClassIds : extData[c] # Null => extData'[c] = extData[c]]_vars

\* C3 witness: two calls have returned the same record; one thread allocated
\* it, the other allocated a record of its own and lost the race.
C3_Witness ==
    \E t1, t2 \in Threads :
       /\ t1 # t2
       /\ pc[t1] = "done" /\ frame[t1].op = "EnsureExtDataPresent"
       /\ pc[t2] = "done" /\ frame[t2].op = "EnsureExtDataPresent"
       /\ frame[t1].ext_this = frame[t2].ext_this
       /\ frame[t1].ret # Null /\ frame[t1].ret = frame[t2].ret
       /\ frame[t1].new_ext = frame[t1].ret
       /\ frame[t2].new_ext # Null /\ frame[t2].new_ext # frame[t2].ret

\* C4 as stated: at most one transition into an error status completes per type.
C4_Original == \A c \in ClassIds : errorTransitions[c] <= 1

\* C4 amended: a SetStatus call into an error status on a class whose status
\* is already an error status never gets past the CHECK of line 133: it is
\* about to run it or has aborted. (A class that a later call moved out of the
\* error status can be marked erroneous again.)
C4_NoErrorOnErroneous ==
    \A t \in Threads :
       (/\ frame[t].op = "SetStatus"
        /\ IsErroneous(frame[t].new_status)
        /\ IsErroneous(frame[t].old_status))
       => pc[t] \in {"ss_err", "aborted"}

\* C4 witness: the call into ErrorUnresolved on a class in ErrorUnresolved has
\* aborted.
C4_Witness ==
    \E t \in Threads :
       /\ pc[t] = "aborted" /\ frame[t].op = "SetStatus"
       /\ frame[t].new_status = kStatusErrorUnresolved
       /\ frame[t].old_status = kStatusErrorUnresolved
       /\ status[frame[t].klass] = kStatusErrorUnresolved

\* C5: when a SetStatus call into an error status has returned and the
\* extension data was available, the failure recorded in the class's
\* extension data is the one that was pending when the call was entered, and
\* that failure is pending on the caller.
C5_CapturedFailure ==
    \A t \in Threads :
       (SetStatusDone(t) /\ IsErroneous(frame[t].new_status) /\ frame[t].ret # Null)
       => /\ extData[frame[t].klass] = frame[t].ret
          /\ verifyError[frame[t].ret] = frame[t].entryException
          /\ frame[t].entryException # NoException
          /\ exception[t] = frame[t].entryException

\* C5 witness: the call returned having allocated the extension data itself
\* with a VerifyError pending.
C5_Witness ==
    \E t \in Threads :
       /\ SetStatusDone(t) /\ IsErroneous(frame[t].new_status)
       /\ frame[t].ret # Null /\ frame[t].new_ext = frame[t].ret
       /\ frame[t].entryException = "VerifyError"

C8_BoundaryNotify ==
    \A t \in Threads :
       (/\ classLinkerInitialized /\ SetStatusDone(t)
        /\ ~frame[t].is_temp
        /\ \/ frame[t].old_status < kStatusResolved /\ kStatusResolved <= frame[t].new_status
           \/ frame[t].new_status < kStatusResolved /\ kStatusResolved <= frame[t].old_status)
       => frame[t].notified

\* C8 witness: a regular class regressed from Verified to ErrorResolved.
C8_Witness ==
    /\ classLinkerInitialized
    /\ \E t \in Threads :
         /\ SetStatusDone(t) /\ ~frame[t].is_temp /\ frame[t].notified
         /\ frame[t].old_status = kStatusVerified
         /\ frame[t].new_status = kStatusErrorResolved

\* A CopyOf call of thread t has returned a new class.
CopyOfDone(t) ==
    /\ pc[t] = "done" /\ frame[t].op = "CopyOf" /\ frame[t].result = "returned"
    /\ frame[t].new_class # Null

\* C9 as stated: after CopyOf has returned a new class, the old class is Retired.
C9_Original ==
    \A t \in Threads : CopyOfDone(t) => status[frame[t].orig] = kStatusRetired

\* C9 amended: no step of a CopyOf call, from the call to its return, changes
\* the status of the old class; retiring it is left to the caller.
C9_OldStatusKept ==
    [][\A t \in Threads :
         frame'[t].op = "CopyOf"
         => status'[frame'[t].orig] = status[frame'[t].orig]]_vars

\* C9 witness: CopyOf has returned a copy in Resolving of a class that is
\* still Loaded.
C9_Witness ==
    \E t \in Threads :
       /\ CopyOfDone(t)
       /\ status[frame[t].orig] = kStatusLoaded
       /\ status[frame[t].new_class] = kStatusResolving

\* C10 as stated: after CopyOf has returned a new class, it has the descriptor
\* of the old class and a strictly larger class size.
C10_Original ==
    \A t \in Threads :
       CopyOfDone(t)
       => /\ GetDescriptor(frame[t].new_class) = GetDescriptor(frame[t].orig)
          /\ classSize[frame[t].new_class] > classSize[frame[t].orig]

\* C10 amended: after CopyOf has returned a new class, it has the descriptor
\* of the old class and the class size asked for, which in a debug build is
\* at least the old class size.
C10_DescriptorAndSize ==
    \A t \in Threads :
       CopyOfDone(t)
       => /\ GetDescriptor(frame[t].new_class) = GetDescriptor(frame[t].orig)
          /\ classSize[frame[t].new_class] = frame[t].new_length
          /\ kIsDebugBuild
               => classSize[frame[t].new_class] >= classSize[frame[t].orig]

\* C10 witness: in a debug build CopyOf has returned a copy of the same class
\* size as the old class.
C10_Witness ==
    /\ kIsDebugBuild
    /\ \E t \in Threads :
         /\ CopyOfDone(t)
         /\ classSize[frame[t].new_class] = classSize[frame[t].orig]

\* The header fields CopyOf does not set afresh: the header without the
\* working-vtable pointer and the interface-method-table pointer.
CopiedHeader(h) == [h EXCEPT !.vtable = Null, !.imt = Null]

\* C11: after CopyOf has returned a new class, its status is Resolving, its
\* header fields other than status, class size, interface-method-table pointer
\* and working-vtable pointer are those of the old class, its embedded vtable
\* has the length and the entries of the working vtable, and its
\* interface-method-table pointer is the table passed in.
C11_CopyContents ==
    \A t \in Threads :
       CopyOfDone(t)
       => LET n == frame[t].new_class
              o == frame[t].orig
          IN  /\ status[n] = kStatusResolving
              /\ CopiedHeader(hdr[n]) = CopiedHeader(hdr[o])
              /\ extData[n] = extData[o]
              /\ objectSizeAllocFastPath[n] = objectSizeAllocFastPath[o]
              /\ hdr[o].vtable # Null
              /\ Len(embeddedVTable[n]) = Len(PointerArrays[hdr[o].vtable])
              /\ \A i \in 1 .. Len(embeddedVTable[n]) :
                    embeddedVTable[n][i] = PointerArrays[hdr[o].vtable][i]
              /\ hdr[n].imt = frame[t].imt

\* C11 witness: CopyOf has returned a copy of a Loaded class with the second
\* interface-method table and a two-entry embedded vtable.
C11_Witness ==
    \E t \in Threads :
       /\ CopyOfDone(t)
       /\ status[frame[t].orig] = kStatusLoaded
       /\ frame[t].imt = 2
       /\ hdr[frame[t].new_class].imt = 2
       /\ Len(embeddedVTable[frame[t].new_class]) = 2

\* A CopyOf call of thread t has returned none.
CopyOfFailed(t) ==
    /\ pc[t] = "done" /\ frame[t].op = "CopyOf" /\ frame[t].result = "returned"
    /\ frame[t].new_class = Null

\* C12: a CopyOf call whose allocation fails returns none with an
\* OutOfMemoryError pending, and no step of the call, from the call to its
\* return, changes the status, class size, header, embedded vtable or
\* extension data of the old class.
C12_OomLeavesOld ==
    /\ [](\A t \in Threads : CopyOfFailed(t) => exception[t] = OOME)
    /\ [][\A t \in Threads :
            (frame'[t].op = "CopyOf" /\ frame'[t].new_class = Null)
            => LET o == frame'[t].orig
               IN  /\ status'[o] = status[o]
                   /\ classSize'[o] = classSize[o]
                   /\ hdr'[o] = hdr[o]
                   /\ embeddedVTable'[o] = embeddedVTable[o]
                   /\ extData'[o] = extData[o]
                   /\ allocated' = allocated]_vars

\* C12 witness: CopyOf of a Loaded class has returned none, with an
\* OutOfMemoryError pending and the class still Loaded.
C12_Witness ==
    \E t \in Threads :
       /\ CopyOfFailed(t)
       /\ exception[t] = OOME
       /\ status[frame[t].orig] = kStatusLoaded

\* C13 as stated: in every state the cached allocation size of a class is
\* valid only if the class is Initialized, fixed-size and not finalizable.
C13_Original ==
    \A c \in allocated :
       objectSizeAllocFastPath[c] # kFastPathUnset
       => /\ status[c] = kStatusInitialized
          /\ ~hdr[c].isVariableSize
          /\ ~hdr[c].isFinalizable

\* Thread t takes the step of SetStatus that writes the cached allocation size.
WritesFastPath(t) ==
    /\ pc[t] = "ss_fast" /\ pc'[t] = "ss_notify"
    /\ ~hdr[frame[t].klass].isFinalizable

IfaceSuperDone(t) ==
    /\ pc[t] = "done" /\ frame[t].op = "FindVirtualMethodForInterfaceSuper"
    /\ frame[t].result = "returned"

\* The default-method conflict scenario: interface 1 (A) declares a default
\* f(), interface 2 (B) extends A and declares its own default f(), and the
\* receiver is a class with interface table tbl and no f() of its own.
ConflictScenario(tbl) ==
    /\ hdr[1].declaredVirtualMethods = <<Method(1, "g", FALSE), Method(1, "f", TRUE)>>
    /\ hdr[2].declaredVirtualMethods = <<Method(2, "g", FALSE), Method(2, "f", TRUE)>>
    /\ hdr[1].iftable = <<>>
    /\ hdr[2].iftable = <<1>>
    /\ ~hdr[Receiver].isInterface
    /\ hdr[Receiver].iftable = tbl
    /\ \A i \in 1 .. Len(GetVirtualMethods(Receiver)) :
          GetVirtualMethods(Receiver)[i].name # "f"

\* C15 as stated: in the scenario with interface table [B, A] the lookup of
\* A's f() returns B.f.
C15_Original ==
    \A t \in Threads :
       (IfaceSuperDone(t) /\ frame[t].args[1] = Method(1, "f", FALSE)
          /\ ConflictScenario(<<2, 1>>))
       => frame[t].ret = Method(2, "f", TRUE)

\* C15 amended: in the scenario the lookup of A's f() returns only in a
\* release build (the receiver is not an interface); with interface table
\* [B, A] it returns A.f, the default of the last table entry, and with
\* interface table [A, B] it returns B.f.
C15_LastEntryWins ==
    \A t \in Threads :
       (IfaceSuperDone(t) /\ frame[t].args[1] = Method(1, "f", FALSE))
       => /\ ConflictScenario(<<2, 1>>)
               => (frame[t].ret = Method(1, "f", TRUE) /\ ~kIsDebugBuild)
          /\ ConflictScenario(<<1, 2>>)
               => (frame[t].ret = Method(2, "f", TRUE) /\ ~kIsDebugBuild)

\* C15 witness: in the scenario with interface table [B, A] the lookup of
\* A's f() has returned A.f.
C15_Witness ==
    \E t \in Threads :
       /\ IfaceSuperDone(t) /\ frame[t].args[1] = Method(1, "f", FALSE)
       /\ ConflictScenario(<<2, 1>>)
       /\ frame[t].ret = Method(1, "f", TRUE)

\* The declared virtual methods of class c with the name and signature of method.
Matching(c, method) ==
    {m \in {GetDeclaredVirtualMethods(c)[i] : i \in 1 .. Len(GetDeclaredVirtualMethods(c))} :
       m.name = method.name}

\* The greatest element of a nonempty set of numbers.
Greatest(S) == CHOOSE k \in S : \A j \in S : j <= k

\* The default method at table index k counts as overridden: a matching
\* abstract method is declared at a higher index by a subtype of the interface.
CountsAsOverridden(this, method, k) ==
    \E j \in (k + 1) .. Len(hdr[this].iftable) :
       /\ \E m \in Matching(hdr[this].iftable[j], method) : ~m.isDefault
       /\ IsAssignableFrom(hdr[this].iftable[k], hdr[this].iftable[j])

\* The result C16 states for the lookup of method on this.
InterfaceSuperResult(this, method) ==
    LET own == {i \in 1 .. Len(GetVirtualMethods(this)) :
                  GetVirtualMethods(this)[i].name = method.name}
        tbl == hdr[this].iftable
        defaults == {k \in 1 .. Len(tbl) :
                       /\ \E m \in Matching(tbl[k], method) : m.isDefault
                       /\ ~CountsAsOverridden(this, method, k)}
        abstracts == {k \in 1 .. Len(tbl) :
                        \E m \in Matching(tbl[k], method) : ~m.isDefault}
    IN  IF own # {}
        THEN {GetVirtualMethods(this)[i] : i \in own}
        ELSE IF defaults # {}
        THEN {m \in Matching(tbl[Greatest(defaults)], method) : m.isDefault}
        ELSE IF abstracts # {}
        THEN {m \in Matching(tbl[Greatest(abstracts)], method) : ~m.isDefault}
        ELSE {NoMethod}

\* C16: a FindVirtualMethodForInterfaceSuper call that returns, returns the
\* receiver's own virtual method of that name and signature if there is one;
\* otherwise the matching default method of the highest-index interface that
\* is not overridden by a matching abstract method of a subtype at a higher
\* index; otherwise the matching abstract method of the highest index;
\* otherwise none.
C16_InterfaceSuperLookup ==
    \A t \in Threads :
       IfaceSuperDone(t)
       => frame[t].ret \in InterfaceSuperResult(frame[t].klass, frame[t].args[1])

\* C16 witness: the lookup has passed over an overridden default method and
\* another, not overridden, default method at a lower index was returned.
C16_Witness ==
    \E t \in Threads :
       /\ IfaceSuperDone(t)
       /\ frame[t].ret.isDefault
       /\ frame[t].ret.declaringClass # Receiver
       /\ \E k \in 1 .. Len(hdr[Receiver].iftable) :
             /\ \E m \in Matching(hdr[Receiver].iftable[k], frame[t].args[1]) : m.isDefault
             /\ CountsAsOverridden(Receiver, frame[t].args[1], k)
             /\ hdr[Receiver].iftable[k] # frame[t].ret.declaringClass

\* A FindDeclaredInstanceField call of thread t has returned.
FieldLookupDone(t) ==
    /\ pc[t] = "done" /\ frame[t].op = "FindDeclaredInstanceField"
    /\ frame[t].result = "returned"

\* The entries of a field array with the given name and type, by index.
EntriesEqualTo(fields, name, type) ==
    {i \in 1 .. Len(fields.elems) :
       fields.elems[i].name = name /\ fields.elems[i].type = type}

\* C17: on a field array sorted strictly ascending by name, then type, the
\* binary search returns what an exhaustive scan for an entry of equal name
\* and type returns: that entry, or none if there is no such entry; a null
\* array yields none; and the cross-check of the debug build never fails.
C17_BinarySearchIsLinearScan ==
    /\ ~aborted
    /\ \A t \in Threads :
          FieldLookupDone(t)
          => LET fields == hdr[frame[t].klass].ifields
                 hits == EntriesEqualTo(fields, frame[t].args[1], frame[t].args[2])
             IN  /\ fields.isNull => frame[t].ret = Null
                 /\ hits = {} => frame[t].ret = Null
                 /\ hits # {} => (frame[t].ret \in hits
                                   /\ \A i \in hits : frame[t].ret <= i)

\* C17 witness: the search has found the last entry of a full array.
C17_Witness ==
    \E t \in Threads :
       /\ FieldLookupDone(t)
       /\ Len(hdr[frame[t].klass].ifields.elems) = MaxFields
       /\ frame[t].ret = MaxFields

\* An IsInSamePackage call of thread t has returned.
SamePackageDone(t) ==
    /\ pc[t] = "done" /\ frame[t].op = "IsInSamePackage" /\ frame[t].result = "returned"

\* C18: IsInSamePackage is reflexive and symmetric, and between classes of
\* matching class loaders of which one is an array it returns what it returns
\* for their innermost component types.
C18_SamePackageRelation ==
    \A t \in Threads :
       SamePackageDone(t)
       => LET this == frame[t].klass
              that == frame[t].args[1]
          IN  /\ this = that => frame[t].ret = TRUE
              /\ frame[t].ret = IsInSamePackage(that, this)
              /\ (hdr[this].classLoader = hdr[that].classLoader
                   /\ (hdr[this].isArrayClass \/ hdr[that].isArrayClass))
                  => frame[t].ret = IsInSamePackage(ElementClass(this), ElementClass(that))

\* C18 witness: two distinct arrays of matching class loaders, with distinct
\* innermost component types, have been found in the same package.
C18_Witness ==
    \E t \in Threads :
       /\ SamePackageDone(t)
       /\ frame[t].klass # frame[t].args[1]
       /\ hdr[frame[t].klass].isArrayClass /\ hdr[frame[t].args[1]].isArrayClass
       /\ ElementClass(frame[t].klass) # ElementClass(frame[t].args[1])
       /\ frame[t].ret = TRUE

\* The positions of the '/' characters of a descriptor, counted from 1.
Slashes(descriptor) == {j \in 1 .. Len(descriptor) : descriptor[j] = "/"}

\* The package prefix of a descriptor: the string up to and including its
\* last '/', empty if it has none.
PackagePrefix(descriptor) ==
    IF Slashes(descriptor) = {} THEN <<>>
    ELSE SubSeq(descriptor, 1, Greatest(Slashes(descriptor)))

\* C19: between two distinct non-array classes IsInSamePackage returns true
\* exactly when their class loaders are equal and their descriptors have the
\* same package prefix.
C19_LoaderAndPrefix ==
    \A t \in Threads :
       (SamePackageDone(t) /\ frame[t].klass # frame[t].args[1]
          /\ ~hdr[frame[t].klass].isArrayClass /\ ~hdr[frame[t].args[1]].isArrayClass)
       => (frame[t].ret = TRUE
           <=> /\ hdr[frame[t].klass].classLoader = hdr[frame[t].args[1]].classLoader
               /\ PackagePrefix(GetDescriptor(frame[t].klass))
                    = PackagePrefix(GetDescriptor(frame[t].args[1])))

\* C19 witness: two distinct non-array classes without a '/' in their
\* descriptors, of the same class loader, have been found in the same package.
C19_Witness ==
    \E t \in Threads :
       /\ SamePackageDone(t) /\ frame[t].klass # frame[t].args[1]
       /\ ~hdr[frame[t].klass].isArrayClass /\ ~hdr[frame[t].args[1]].isArrayClass
       /\ Slashes(GetDescriptor(frame[t].klass)) = {}
       /\ Slashes(GetDescriptor(frame[t].args[1])) = {}
       /\ frame[t].ret = TRUE

\* A FindStaticField call of thread t has returned.
StaticFieldDone(t) ==
    /\ pc[t] = "done" /\ frame[t].op = "FindStaticField" /\ frame[t].result = "returned"

\* The order in which C20 has the classes visited from class k: k, then each
\* direct interface of k in index order, each one searched completely before
\* the next, then the same from the superclass of k.
RECURSIVE VisitOrder(_)
RECURSIVE VisitOrderOfInterfaces(_, _)
VisitOrder(k) ==
    IF k = Null THEN <<>>
    ELSE <<k>> \o VisitOrderOfInterfaces(k, 1) \o VisitOrder(hdr[k].superClass)

VisitOrderOfInterfaces(k, i) ==
    IF i > Len(hdr[k].directInterfaces) THEN <<>>
    ELSE VisitOrder(hdr[k].directInterfaces[i]) \o VisitOrderOfInterfaces(k, i + 1)

\* The classes that declare a static field of that name and type.
DeclaresStatic(k, name, type) == EntriesEqualTo(hdr[k].sfields, name, type) # {}

\* C20: FindStaticField returns the match declared by the first class, in the
\* order of visit, that declares one, and none if no visited class does; a
\* match reachable through the interfaces of a class therefore wins over one
\* declared by its superclass.
C20_StaticFieldOrder ==
    \A t \in Threads :
       StaticFieldDone(t)
       => LET name == frame[t].args[1]
              type == frame[t].args[2]
              order == VisitOrder(frame[t].klass)
              hits == {j \in 1 .. Len(order) : DeclaresStatic(order[j], name, type)}
          IN  /\ hits = {} => frame[t].ret = NoField
              /\ hits # {}
                  => /\ \E j \in hits : /\ \A i \in hits : j <= i
                                         /\ frame[t].ret.declaringClass = order[j]
                     /\ frame[t].ret.index
                          \in EntriesEqualTo(hdr[frame[t].ret.declaringClass].sfields, name, type)
                     /\ LET viaInterfaces == VisitOrderOfInterfaces(frame[t].klass, 1)
                        IN  (/\ ~DeclaresStatic(frame[t].klass, name, type)
                             /\ \E j \in 1 .. Len(viaInterfaces) :
                                   DeclaresStatic(viaInterfaces[j], name, type))
                            => \E j \in 1 .. Len(viaInterfaces) :
                                  frame[t].ret.declaringClass = viaInterfaces[j]

\* C20 witness: from class K, whose superclass S declares x and whose
\* interface I does not, the lookup of x has returned the x of I0, the
\* superinterface of I.
C20_Witness ==
    \E t \in Threads :
       /\ StaticFieldDone(t)
       /\ frame[t].klass = 6 /\ frame[t].args[1] = 2
       /\ DeclaresStatic(5, 2, 1)
       /\ ~DeclaresStatic(3, 2, 1)
       /\ hdr[6].directInterfaces = <<4, 3>>
       /\ frame[t].ret.declaringClass = 2

\* A FindField call of thread t has returned.
FindFieldDone(t) ==
    /\ pc[t] = "done" /\ frame[t].op = "FindField" /\ frame[t].result = "returned"

\* The superclass chain of class k, k first.
RECURSIVE SuperclassChain(_)
SuperclassChain(k) == IF k = Null THEN <<>> ELSE <<k>> \o SuperclassChain(hdr[k].superClass)

\* Class k declares an instance field of that name and type.
DeclaresInstance(k, name, type) == EntriesEqualTo(hdr[k].ifields, name, type) # {}

\* A static field of that name and type is found through the direct
\* interfaces of class k.
StaticThroughInterfaces(k, name, type) ==
    \E j \in 1 .. Len(VisitOrderOfInterfaces(k, 1)) :
       DeclaresStatic(VisitOrderOfInterfaces(k, 1)[j], name, type)

\* C21: FindField returns none if no class of the superclass chain has a
\* match; otherwise the match of the first class of the chain that has one:
\* its instance field if it declares one, else its static field if it
\* declares one, else the static field found through its direct interfaces.
C21_FindFieldOrder ==
    \A t \in Threads :
       FindFieldDone(t)
       => LET name == frame[t].args[1]
              type == frame[t].args[2]
              chain == SuperclassChain(frame[t].klass)
              levels == {j \in 1 .. Len(chain) :
                           \/ DeclaresInstance(chain[j], name, type)
                           \/ DeclaresStatic(chain[j], name, type)
                           \/ StaticThroughInterfaces(chain[j], name, type)}
              ret == frame[t].ret
          IN  /\ levels = {} => ret = NoField
              /\ levels # {}
                  => LET k == chain[CHOOSE j \in levels : \A i \in levels : j <= i]
                     IN  IF DeclaresInstance(k, name, type)
                         THEN /\ ret.declaringClass = k
                              /\ "instance" \in DOMAIN ret
                              /\ ret.index \in EntriesEqualTo(hdr[k].ifields, name, type)
                         ELSE IF DeclaresStatic(k, name, type)
                         THEN /\ ret.declaringClass = k
                              /\ "instance" \notin DOMAIN ret
                              /\ ret.index \in EntriesEqualTo(hdr[k].sfields, name, type)
                         ELSE /\ ret = FindStaticFieldInInterfaces(k, 0, name, type)
                              /\ "instance" \notin DOMAIN ret
                              /\ \E j \in 1 .. Len(VisitOrderOfInterfaces(k, 1)) :
                                    ret.declaringClass = VisitOrderOfInterfaces(k, 1)[j]

\* C21 witness: from class K, which declares both an instance field x and a
\* static field x, and whose superclass S declares an instance field x, the
\* lookup of x has returned the instance field of K.
C21_Witness ==
    \E t \in Threads :
       /\ FindFieldDone(t)
       /\ frame[t].klass = 6 /\ frame[t].args[1] = 2
       /\ DeclaresInstance(6, 2, 1) /\ DeclaresStatic(6, 2, 1) /\ DeclaresInstance(5, 2, 1)
       /\ frame[t].ret = InstanceFieldPtr(6, 1)

\* A lookup op of thread t has returned.
LookupDone(t, op) ==
    /\ pc[t] = "done" /\ frame[t].op = op /\ frame[t].result = "returned"

\* The first class of the superclass chain of this that satisfies holds, or
\* Null if no class of the chain does.
NearestOnChain(this, holds(_)) ==
    LET chain == SuperclassChain(this)
        levels == {j \in 1 .. Len(chain) : holds(chain[j])}
    IN  IF levels = {} THEN Null
        ELSE chain[CHOOSE j \in levels : \A i \in levels : j <= i]

\* Class k holds a direct method, and a virtual method, of that name.
HoldsDirect(k, name) == \E i \in 1 .. Len(hdr[k].directMethods) : hdr[k].directMethods[i].name = name
HoldsVirtual(k, name) == \E i \in 1 .. Len(GetVirtualMethods(k)) : GetVirtualMethods(k)[i].name = name

\* A class reachable from this through an interface only: an entry of the
\* interface table of a class of the superclass chain.
ThroughInterface(this) ==
    {i \in GraphClasses :
       \E j \in 1 .. Len(SuperclassChain(this)) :
          \E n \in 1 .. Len(hdr[SuperclassChain(this)[j]].iftable) :
             hdr[SuperclassChain(this)[j]].iftable[n] = i}

\* C22: FindInstanceField, FindDirectMethod and FindVirtualMethod return the
\* match held by the nearest class of the superclass chain of the receiver
\* that holds one, and none if no class of the chain holds one, whatever the
\* interfaces of the chain hold: what they return is never a member held by
\* an interface.
C22_ChainLookups ==
    \A t \in Threads :
       /\ LookupDone(t, "FindInstanceField")
          => LET k == NearestOnChain(frame[t].klass,
                                     LAMBDA c : DeclaresInstance(c, frame[t].args[1], frame[t].args[2]))
             IN  /\ k = Null => frame[t].ret = NoField
                 /\ k # Null => /\ frame[t].ret.declaringClass = k
                                /\ frame[t].ret.index \in
                                      EntriesEqualTo(hdr[k].ifields, frame[t].args[1], frame[t].args[2])
       /\ LookupDone(t, "FindDirectMethod")
          => LET k == NearestOnChain(frame[t].klass, LAMBDA c : HoldsDirect(c, frame[t].args[1]))
             IN  /\ k = Null => frame[t].ret = NoArtMethod
                 /\ k # Null => /\ frame[t].ret.holder = k /\ frame[t].ret.direct
                                /\ hdr[k].directMethods[frame[t].ret.index].name = frame[t].args[1]
       /\ LookupDone(t, "FindVirtualMethod")
          => LET k == NearestOnChain(frame[t].klass, LAMBDA c : HoldsVirtual(c, frame[t].args[1]))
             IN  /\ k = Null => frame[t].ret = NoArtMethod
                 /\ k # Null => /\ frame[t].ret.holder = k /\ ~frame[t].ret.direct
                                /\ GetVirtualMethods(k)[frame[t].ret.index].name = frame[t].args[1]
       /\ LookupDone(t, "FindDirectMethod") \/ LookupDone(t, "FindVirtualMethod")
          => frame[t].ret.holder \notin ThroughInterface(frame[t].klass) \ {frame[t].klass}

\* C22 witness: K holds no virtual f() and its superclass S declares one,
\* while interface J, first in the interface table of K, declares one too;
\* FindVirtualMethod on K has returned the f() of S.
C22_Witness ==
    \E t \in Threads :
       /\ LookupDone(t, "FindVirtualMethod")
       /\ frame[t].klass = 6
       /\ ~HoldsVirtual(6, "f") /\ HoldsVirtual(5, "f") /\ HoldsVirtual(4, "f")
       /\ frame[t].ret = ArtMethodPtr(5, FALSE, 2)

\* C23: FindInterfaceMethod returns the match among the virtual methods of
\* the receiver if there is one; otherwise the match held by the entry of
\* lowest index of the interface table that holds one; otherwise none,
\* whatever the superclass chain holds.
C23_InterfaceMethodLookup ==
    \A t \in Threads :
       LookupDone(t, "FindInterfaceMethod")
       => LET this == frame[t].klass
              name == frame[t].args[1]
              tbl == hdr[this].iftable
              entries == {n \in 1 .. Len(tbl) : HoldsVirtual(tbl[n], name)}
              ret == frame[t].ret
          IN  IF HoldsVirtual(this, name)
              THEN /\ ret.holder = this /\ ~ret.direct
                   /\ GetVirtualMethods(this)[ret.index].name = name
              ELSE IF entries # {}
              THEN LET n == CHOOSE n \in entries : \A m \in entries : n <= m
                   IN  /\ ret.holder = tbl[n] /\ ~ret.direct
                       /\ GetVirtualMethods(tbl[n])[ret.index].name = name
              ELSE ret = NoArtMethod

\* C23 witness: K holds no f(), its superclass S declares one, and of the
\* entries J, I0, I of its interface table I0 and I declare one but J does
\* not; FindInterfaceMethod on K has returned the f() of I0.
C23_Witness ==
    \E t \in Threads :
       /\ LookupDone(t, "FindInterfaceMethod")
       /\ frame[t].klass = 6
       /\ ~HoldsVirtual(6, "f") /\ HoldsVirtual(5, "f")
       /\ ~HoldsVirtual(4, "f") /\ HoldsVirtual(2, "f") /\ HoldsVirtual(3, "f")
       /\ frame[t].ret = ArtMethodPtr(2, FALSE, 2)

\* A SetStatus call of thread t into an error status is past the CHECKs of
\* lines 133-137 and past the call of EnsureExtDataPresent of line 145.
PastCapture(t) ==
    /\ frame[t].op = "SetStatus" /\ IsErroneous(frame[t].new_status)
    /\ pc[t] \in {"ss_write", "ss_fast", "ss_notify", "done"}

\* C24 as stated: a SetStatus call into an error status that no CHECK of
\* lines 118-137 rejected does not abort for want of a pending failure.
C24_Original ==
    \A t \in Threads :
       ~(/\ pc[t] = "aborted"
         /\ frame[t].op = "SetStatus" /\ IsErroneous(frame[t].new_status)
         /\ frame[t].extFrom = "ss"
         /\ frame[t].entryException = NoException
         /\ exception[t] = NoException)

\* C24 amended: a SetStatus call into an error status gets past line 152,
\* and so writes the status, only with a failure pending: the one of its
\* entry, recorded in the extension data, or, the allocation of the extension
\* data having failed, an OOM error, with nothing recorded. A call entered
\* with no failure pending gets there in the second way only.
C24_PendingFailureRequired ==
    \A t \in Threads :
       PastCapture(t)
       => /\ exception[t] # NoException
          /\ IF frame[t].ret # Null
             THEN /\ frame[t].entryException # NoException
                  /\ verifyError[frame[t].ret] = frame[t].entryException
                  /\ exception[t] = frame[t].entryException
             ELSE /\ exception[t] = OOME
                  /\ extData[frame[t].klass] = Null
          /\ SetStatusDone(t) => status[frame[t].klass] = frame[t].new_status

\* C24 witness: a call entered with no failure pending has returned, the
\* status written; the allocation failed and nothing was recorded.
C24_Witness ==
    \E t \in Threads :
       /\ SetStatusDone(t) /\ IsErroneous(frame[t].new_status)
       /\ frame[t].entryException = NoException
       /\ frame[t].ret = Null /\ extData[frame[t].klass] = Null
       /\ status[frame[t].klass] = frame[t].new_status

\* EnsureExtDataPresent, called by the SetStatus call of thread t into an
\* error status, has returned none: its allocation failed.
AllocationFailedInSetStatus(t) ==
    /\ frame[t].op = "SetStatus" /\ IsErroneous(frame[t].new_status)
    /\ frame[t].extFrom = "ss" /\ frame[t].ret = Null
    /\ pc[t] \in {"ss_capture", "ss_write", "ss_fast", "ss_notify", "done", "aborted"}

\* C25: when the allocation of the extension data fails in a SetStatus call
\* into an error status, the call does not abort; an OOM error is pending on
\* the caller from then on, the slot of the class is empty and nothing is
\* recorded, and once the status is written and when the call has returned
\* the status of the class is the requested error status.
C25_OomStillCompletes ==
    \A t \in Threads :
       AllocationFailedInSetStatus(t)
       => /\ pc[t] # "aborted"
          /\ exception[t] = OOME
          /\ extData[frame[t].klass] = Null
          /\ pc[t] \in {"ss_fast", "ss_notify", "done"}
               => status[frame[t].klass] = frame[t].new_status

\* C25 witness: a call entered with a VerifyError pending has returned after
\* the allocation failed: the class is erroneous, its slot is empty and the
\* OOM error is pending in place of the VerifyError.
C25_Witness ==
    \E t \in Threads :
       /\ AllocationFailedInSetStatus(t) /\ SetStatusDone(t)
       /\ frame[t].entryException = "VerifyError"
       /\ exception[t] = OOME
       /\ status[frame[t].klass] = frame[t].new_status
       /\ extData[frame[t].klass] = Null

\* An EnsureExtDataPresent call of thread t, made by the thread itself, has
\* returned.
EnsureExtDataPresentDone(t) ==
    pc[t] = "done" /\ frame[t].op = "EnsureExtDataPresent" /\ frame[t].result = "returned"

\* C26: when a call of EnsureExtDataPresent has returned a record, whether
\* the slot was filled on entry, the caller's CAS won or it lost, the
\* exception pending on the caller is the one that was pending on entry, and
\* none if none was.
C26_PendingFailureKept ==
    \A t \in Threads :
       (EnsureExtDataPresentDone(t) /\ frame[t].ret # Null)
       => exception[t] = frame[t].entryException

\* C26 witness: two calls have returned the record one of them installed; the
\* winner of the CAS entered with a VerifyError pending and the loser with
\* none; each has the pending failure of its entry.
C26_Witness ==
    \E t1, t2 \in Threads :
       /\ t1 # t2
       /\ EnsureExtDataPresentDone(t1) /\ EnsureExtDataPresentDone(t2)
       /\ frame[t1].ext_this = frame[t2].ext_this
       /\ frame[t1].ret # Null /\ frame[t1].new_ext = frame[t1].ret
       /\ frame[t2].ret = frame[t1].ret
       /\ frame[t2].new_ext # Null /\ frame[t2].new_ext # frame[t2].ret
       /\ frame[t1].entryException = "VerifyError" /\ exception[t1] = "VerifyError"
       /\ frame[t2].entryException = NoException /\ exception[t2] = NoException

\* The step of thread t in which the allocation of EnsureExtDataPresent
\* fails.
AllocationFails(t) == pc[t] = "ext_alloc" /\ pc'[t] # "ext_alloc" /\ frame'[t].new_ext = Null

\* C27: the step in which the allocation fails returns none to the caller
\* without a compare-and-swap and leaves every slot as it was; and a call
\* that has returned none has allocated no record, and the OOM error is the
\* exception pending on its caller, whatever was pending on entry.
C27_OomReturnsNone ==
    /\ [](\A t \in Threads :
            (EnsureExtDataPresentDone(t) /\ frame[t].ret = Null)
            => /\ frame[t].new_ext = Null
               /\ exception[t] = OOME)
    /\ [][\A t \in Threads :
            AllocationFails(t)
            => /\ pc'[t] = "done" /\ frame'[t].ret = Null
               /\ extData' = extData
               /\ exception'[t] = OOME]_vars

\* C27 witness: a call entered with a VerifyError pending has returned none
\* with the OOM error pending, while the slot holds the record another
\* thread installed before the allocation failed.
C27_Witness ==
    \E t \in Threads :
       /\ EnsureExtDataPresentDone(t) /\ frame[t].ret = Null
       /\ frame[t].entryException = "VerifyError"
       /\ exception[t] = OOME
       /\ extData[frame[t].ext_this] # Null

\* C28 as stated: while threads race in SetStatus calls on a class whose
\* status is below Resolved, with statuses below Resolved, no step lowers the
\* status of the class except to Retired, ErrorUnresolved or ErrorResolved.
C28_Original ==
    [][\A c \in ClassIds :
         (/\ classLinkerInitialized
          /\ status[c] < kStatusResolved
          /\ status'[c] < status[c])
         => SanctionedRegression(status'[c])]_vars

\* The new error status of a SetStatus call does not pair with the status
\* the call read: ErrorResolved below Resolved, or ErrorUnresolved at or above.
MismatchedError(f) ==
    /\ f.op = "SetStatus" /\ IsErroneous(f.new_status)
    /\ (f.new_status = kStatusErrorResolved) # (f.old_status >= kStatusResolved)

\* C29 as stated: a class in ErrorResolved has been at or above Resolved, and
\* a class in ErrorUnresolved never has.
C29_Original ==
    \A c \in ClassIds :
       /\ status[c] = kStatusErrorResolved => everResolved[c]
       /\ status[c] = kStatusErrorUnresolved => ~everResolved[c]

\* C29 amended: a SetStatus call into ErrorResolved with an old status below
\* Resolved, or into ErrorUnresolved with an old status at or above Resolved,
\* gets no further than the CHECK of line 137: it is about to run it or has
\* aborted. So a step that makes a class ErrorResolved finds it at or above
\* Resolved, a step that makes it ErrorUnresolved finds it below Resolved, and
\* a class in ErrorResolved has been at or above Resolved. (A class in
\* ErrorUnresolved may have been resolved earlier.)
C29_ErrorPairsWithOldStatus ==
    /\ [](\A t \in Threads : MismatchedError(frame[t]) => pc[t] \in {"ss_err", "aborted"})
    /\ [](\A c \in ClassIds : status[c] = kStatusErrorResolved => everResolved[c])
    /\ [][\A c \in ClassIds :
            status'[c] # status[c]
            => /\ status'[c] = kStatusErrorResolved => status[c] >= kStatusResolved
               /\ status'[c] = kStatusErrorUnresolved => status[c] < kStatusResolved]_vars

\* C29 witness: a call into ErrorResolved on a class it read as Resolved has
\* returned, and the class is ErrorResolved.
C29_Witness ==
    \E t \in Threads :
       /\ SetStatusDone(t)
       /\ frame[t].new_status = kStatusErrorResolved
       /\ frame[t].old_status = kStatusResolved
       /\ status[frame[t].klass] = kStatusErrorResolved

\* The class of a SetStatus call was temporary when the call read its status.
TempOnEntry(f) ==
    /\ f.old_status < kStatusResolving
    /\ f.old_status # kStatusErrorResolved
    /\ hdr[f.klass].shouldHaveEmbeddedVTable

ErroneousWithoutFailure(c) ==
    /\ IsErroneous(status[c])
    /\ extData[c] # Null
    /\ verifyError[extData[c]] = NoException

\* The SetStatus call of thread t into an error status is at or past its
\* status write.
MarkedErroneous(t) ==
    /\ frame[t].op = "SetStatus" /\ IsErroneous(frame[t].new_status)
    /\ pc[t] \in {"ss_write", "ss_notify", "done"}

\* C33 as stated: a class whose status is an error status and whose
\* extension-data slot is filled has a failure recorded there.
C33_Original == \A c \in ClassIds : ~ErroneousWithoutFailure(c)

\* C33 amended: a SetStatus call into an error status that got extension data
\* from EnsureExtDataPresent has recorded a failure in it before it writes the
\* status. A class is erroneous with extension data that holds no failure
\* only where the call that marked it got none (the allocation failed with
\* OOM): such a state is entered by the status write of a call that got no
\* extension data, or by the install of a record on a class that is erroneous
\* with an empty slot.
C33_RecordedBeforeWrite ==
    /\ [](\A t \in Threads :
            (MarkedErroneous(t) /\ frame[t].ret # Null)
            => verifyError[frame[t].ret] # NoException)
    /\ [][\A c \in ClassIds :
            (ErroneousWithoutFailure(c)' /\ ~ErroneousWithoutFailure(c))
            => \/ \E t \in Threads :
                    /\ pc[t] = "ss_write" /\ frame[t].klass = c
                    /\ IsErroneous(frame[t].new_status) /\ frame[t].ret = Null
               \/ /\ IsErroneous(status[c]) /\ extData[c] = Null
                  /\ \E t \in Threads : pc[t] = "ext_cas" /\ frame[t].ext_this = c]_vars

\* C33 witness: a call into an error status has returned having recorded a
\* VerifyError, and another thread's EnsureExtDataPresent has returned the
\* record that holds it.
C33_Witness ==
    \E t, u \in Threads :
       /\ t # u
       /\ SetStatusDone(t) /\ MarkedErroneous(t) /\ frame[t].ret # Null
       /\ IsErroneous(status[frame[t].klass])
       /\ verifyError[frame[t].ret] = "VerifyError"
       /\ pc[u] = "done" /\ frame[u].op = "EnsureExtDataPresent"
       /\ frame[u].ext_this = frame[t].klass
       /\ frame[u].ret = frame[t].ret

\* C34 as stated: after a SetStatus call into an error status has returned,
\* whatever the other threads did meanwhile, the failure read through the
\* slot of the class is the failure the call was entered with.
C34_Original ==
    \A t \in Threads :
       (/\ SetStatusDone(t) /\ IsErroneous(frame[t].new_status)
        /\ extData[frame[t].klass] # Null)
       => verifyError[extData[frame[t].klass]] = frame[t].entryException

\* C34 amended: while threads race to install extension data, a SetStatus
\* call into an error status that got a record from EnsureExtDataPresent got
\* the record installed in the slot of the class and records the failure it
\* was entered with there, so a record that lost the compare-and-swap never
\* holds a failure; a call that got no record (its allocation failed)
\* records nothing, whatever another thread installs.
C34_RecordedInInstalled ==
    /\ \A t \in Threads :
          (MarkedErroneous(t) /\ frame[t].ret # Null)
          => /\ extData[frame[t].klass] = frame[t].ret
             /\ verifyError[frame[t].ret] = frame[t].entryException
             /\ frame[t].entryException # NoException
    /\ \A e \in ExtIds :
          verifyError[e] # NoException => \E c \in ClassIds : extData[c] = e

\* C34 witness: the marking call allocated a record of its own, lost the
\* compare-and-swap to another thread, and has returned with the VerifyError
\* recorded in the winner's record; its own record holds none.
C34_Witness ==
    \E t, u \in Threads :
       /\ t # u
       /\ SetStatusDone(t) /\ MarkedErroneous(t)
       /\ frame[t].new_ext # Null /\ frame[t].new_ext # frame[t].ret
       /\ frame[u].op = "EnsureExtDataPresent" /\ frame[u].new_ext = frame[t].ret
       /\ extData[frame[t].klass] = frame[t].ret
       /\ verifyError[frame[t].ret] = "VerifyError"
       /\ verifyError[frame[t].new_ext] = NoException

C36_Original ==
    \A t \in Threads :
       (~classLinkerInitialized /\ frame[t].op = "SetStatus")
       => /\ ~frame[t].notified
          /\ SetStatusDone(t) => status[frame[t].klass] = frame[t].new_status
          /\ pc[t] = "aborted"
               => /\ IsErroneous(frame[t].new_status)
                  /\ \/ IsErroneous(frame[t].old_status)
                     \/ MismatchedError(frame[t])

\* C36 amended: while the class linker is not initialized, a SetStatus call
\* runs neither the forward-only check nor the lock-owner check and never
\* notifies; a call with a status that is not an error status always writes
\* it, a lower or equal one included, and a call that returned has stored
\* the status it was given. A call aborts before the write only into an
\* error status: the class is erroneous already, ErrorResolved is not paired
\* with an old status at or above Resolved, or no failure is pending. It
\* aborts after the write only in a debug build, storing Initialized on a
\* class whose allocation fast-path size is already set (line 166).
C36_BootstrapUnchecked ==
    \A t \in Threads :
       (~classLinkerInitialized /\ frame[t].op = "SetStatus")
       => /\ ~frame[t].notified
          /\ SetStatusDone(t) => status[frame[t].klass] = frame[t].new_status
          /\ pc[t] = "aborted"
               => \/ /\ IsErroneous(frame[t].new_status)
                     /\ status[frame[t].klass] = frame[t].old_status
                     /\ \/ IsErroneous(frame[t].old_status)
                        \/ MismatchedError(frame[t])
                        \/ exception[t] = NoException
                  \/ /\ kIsDebugBuild
                     /\ frame[t].new_status = kStatusInitialized
                     /\ status[frame[t].klass] = kStatusInitialized
                     /\ objectSizeAllocFastPath[frame[t].klass] # kFastPathUnset

\* C36 witness: with the class linker not initialized, a call has moved a
\* class back from Resolved to Loaded without its thread owning the monitor,
\* and notified nobody.
C36_Witness ==
    /\ ~classLinkerInitialized
    /\ \E t \in Threads :
         /\ SetStatusDone(t) /\ ~frame[t].notified
         /\ frame[t].old_status = kStatusResolved
         /\ frame[t].new_status = kStatusLoaded
         /\ status[frame[t].klass] = kStatusLoaded
         /\ lockOwner[frame[t].klass] # t

\* A call of op by thread t has returned.
RootCallDone(t, op) == pc[t] = "done" /\ frame[t].op = op

\* C37: SetClassClass aborts if a root is registered already or if its
\* argument is null, and registers its argument otherwise; ResetClass aborts
\* if no root is registered and deregisters the root otherwise. So the
\* completed calls alternate, SetClassClass first, a root is registered
\* exactly after an odd number of them, and VisitRoots reports the
\* registered root to the visitor, and nothing when none is registered.
C37_RootLifecycle ==
    /\ [](/\ \A i \in 1 .. Len(rootCalls) :
               rootCalls[i] = IF i % 2 = 1 THEN "SetClassClass" ELSE "ResetClass"
          /\ (java_lang_Class_ # Null) <=> (Len(rootCalls) % 2 = 1)
          /\ \A t \in Threads :
               /\ RootCallDone(t, "SetClassClass")
                    => /\ frame[t].args[1] # Null
                       /\ java_lang_Class_ = frame[t].args[1]
                       /\ hdr[java_lang_Class_].classFlags = kClassFlagClass
               /\ RootCallDone(t, "ResetClass") => java_lang_Class_ = Null
               /\ RootCallDone(t, "VisitRoots")
                    => frame[t].ret = IF java_lang_Class_ # Null
                                      THEN <<java_lang_Class_>> ELSE <<>>)
    /\ [][\A t \in Threads :
            (pc[t] = "idle" /\ pc'[t] # "idle")
            => /\ frame'[t].op = "SetClassClass"
                    => (pc'[t] = "aborted"
                          <=> (java_lang_Class_ # Null \/ frame'[t].args[1] = Null))
               /\ frame'[t].op = "ResetClass"
                    => (pc'[t] = "aborted" <=> java_lang_Class_ = Null)
               /\ pc'[t] = "aborted" => UNCHANGED java_lang_Class_]_vars

\* C37 witness: a root was registered, reset and registered again, and
\* VisitRoots has reported it to the visitor.
C37_Witness ==
    /\ rootCalls = <<"SetClassClass", "ResetClass", "SetClassClass">>
    /\ java_lang_Class_ # Null
    /\ \E t \in Threads :
         RootCallDone(t, "VisitRoots") /\ frame[t].ret = <<java_lang_Class_>>

====
